---- MODULE Spec2Model ----
(***************************************************************************)
(* A model of the maternal-nutrition engine: the nutritional analyzer      *)
(* (score, safety screening), the recommender (ranking with category       *)
(* variety) and the meal planner (day-by-day plan generation), the         *)
(* chatbot (intent, food extraction, answers) and the recommendations      *)
(* route with its stored Recommendation rows.                              *)
(*                                                                         *)
(* Representation.  A Python str is a sequence of one-character strings,   *)
(* so that lower() and the `in` substring test are computed.  A Python     *)
(* float is an exact rational <<n, d>> with d > 0, kept in lowest terms.   *)
(* A dict is a function; `k in d` is k \in DOMAIN d.                        *)
(***************************************************************************)
EXTENDS Integers, Sequences, FiniteSets, TLC

VARIABLES
    foods,          \* the food_items table, in primary-key order
    user,           \* the requesting user (trimester, diet, health conditions)
    interactions,   \* the user_interactions table, oldest first
    op,             \* the operation this behaviour runs
    args,           \* the operation's remaining arguments
    pc,             \* position inside the operation
    ret,            \* the operation's return value, once it has returned
    days,           \* generate_meal_plan: the clamped number of days
    safe_foods,     \* generate_meal_plan: the filtered food list
    used_foods,     \* generate_meal_plan: ids of recently used foods
    day,            \* generate_meal_plan: the loop variable
    slot,           \* _generate_day_meals: index into meal_types
    day_meals,      \* _generate_day_meals: meal type -> selected foods
    meal_plan,      \* generate_meal_plan: the day entries built so far
    recommendations,\* the recommendations table, in primary-key order
    models_loaded,  \* the chatbot instance's _models_loaded flag
    _chatbot_instance, \* ai_engine/chatbot.py: the module global
    _chatbot,       \* routes/chatbot.py: the module global
    instances,      \* the MaternalFoodChatbot objects constructed so far
    threads         \* get_chatbot: each calling thread's position and locals

vars == <<foods, user, interactions, op, args, pc, ret,
          days, safe_foods, used_foods, day, slot, day_meals, meal_plan,
          recommendations, models_loaded,
          _chatbot_instance, _chatbot, instances, threads>>

planVars == <<days, safe_foods, used_foods, day, slot, day_meals, meal_plan>>

singletonVars == <<_chatbot_instance, _chatbot, instances, threads>>

appVars == <<recommendations, models_loaded, singletonVars>>

None == "None"

(***************************************************************************)
(* Strings                                                                 *)
(***************************************************************************)
UpperCase == <<"A","B","C","D","E","F","G","H","I","J","K","L","M",
               "N","O","P","Q","R","S","T","U","V","W","X","Y","Z">>
LowerCase == <<"a","b","c","d","e","f","g","h","i","j","k","l","m",
               "n","o","p","q","r","s","t","u","v","w","x","y","z">>

LowerChar(c) ==
    IF \E i \in 1..26 : UpperCase[i] = c
    THEN LowerCase[CHOOSE i \in 1..26 : UpperCase[i] = c]
    ELSE c

\* str.lower()
Lower(s) == [i \in 1..Len(s) |-> LowerChar(s[i])]

\* the Python test `a in b` on two strings
IsSubstring(a, b) ==
    \E k \in 0..(Len(b) - Len(a)) :
        \A i \in 1..Len(a) : b[k + i] = a[i]

(***************************************************************************)
(* Rationals                                                               *)
(***************************************************************************)
RECURSIVE GCD(_, _)
GCD(a, b) == IF b = 0 THEN a ELSE GCD(b, a % b)

Abs(x) == IF x < 0 THEN -x ELSE x

Rat(n, d) ==
    LET g == GCD(Abs(n), d)
    IN  IF n = 0 THEN <<0, 1>> ELSE <<n \div g, d \div g>>

RAdd(x, y) == Rat(x[1] * y[2] + y[1] * x[2], x[2] * y[2])
RMul(x, y) == Rat(x[1] * y[1], x[2] * y[2])
RDivInt(x, k) == Rat(x[1], x[2] * k)
RLt(x, y)  == x[1] * y[2] < y[1] * x[2]
RLe(x, y)  == x[1] * y[2] <= y[1] * x[2]
RMin(x, y) == IF RLt(y, x) THEN y ELSE x
RMax(x, y) == IF RLt(x, y) THEN y ELSE x

Zero == <<0, 1>>
One  == <<1, 1>>
Half == <<1, 2>>

(***************************************************************************)
(* Dictionaries                                                            *)
(***************************************************************************)
EmptyDict == <<>>

\* dict.get(key, default)
Get(d, key, default) == IF key \in DOMAIN d THEN d[key] ELSE default

(***************************************************************************)
(* models/food.py                                                          *)
(***************************************************************************)
FoodItem(id, name_english, name_hindi, category, nutritional_info, trimester_suitability, regional_origin, precautions) ==
    [id |-> id, name_english |-> name_english, name_hindi |-> name_hindi,
     category |-> category, nutritional_info |-> nutritional_info,
     trimester_suitability |-> trimester_suitability,
     regional_origin |-> regional_origin, precautions |-> precautions]

\* json.loads of the stored text; an empty column gives {}
get_nutritional_info(food) == food.nutritional_info

get_trimester_suitability(food) == food.trimester_suitability

(***************************************************************************)
(* ai_engine/nutritional_analyzer.py                                       *)
(***************************************************************************)
trimester_requirements ==
    [t \in 1..3 |->
        CASE t = 1 -> [folic_acid |-> <<600, 1>>, vitamin_b6 |-> <<19, 10>>,
                       iron |-> <<27, 1>>, calcium |-> <<1000, 1>>,
                       protein |-> <<60, 1>>, calories |-> <<1800, 1>>]
          [] t = 2 -> [calcium |-> <<1000, 1>>, vitamin_d |-> <<600, 1>>,
                       omega3 |-> <<200, 1>>, protein |-> <<70, 1>>,
                       iron |-> <<27, 1>>, calories |-> <<2200, 1>>]
          [] t = 3 -> [iron |-> <<27, 1>>, protein |-> <<75, 1>>,
                       vitamin_k |-> <<90, 1>>, fiber |-> <<28, 1>>,
                       calcium |-> <<1000, 1>>, calories |-> <<2400, 1>>]]

\* min(food_nutrient_amount / required_amount, 1.0)
nutrient_score(amount, required) ==
    RMin(Rat(amount * required[2], required[1]), One)

RECURSIVE SumScores(_, _, _)
SumScores(names, nutrition, requirements) ==
    IF names = {} THEN Zero
    ELSE LET n == CHOOSE x \in names : TRUE
         IN  RAdd(nutrient_score(nutrition[n], requirements[n]),
                  SumScores(names \ {n}, nutrition, requirements))

\* the mean of the raw ratios, with neither min(..., 1.0) applied
calculate_nutritional_score_unclamped(food_item, trimester) ==
    LET nutrition    == get_nutritional_info(food_item)
        requirements == Get(trimester_requirements, trimester,
                            trimester_requirements[1])
        matched      == DOMAIN requirements \cap DOMAIN nutrition
        RECURSIVE Raw(_)
        Raw(names) ==
            IF names = {} THEN Zero
            ELSE LET n == CHOOSE x \in names : TRUE
                 IN  RAdd(Rat(nutrition[n] * requirements[n][2],
                              requirements[n][1]), Raw(names \ {n}))
    IN  IF DOMAIN nutrition = {} \/ matched = {} THEN Half
        ELSE RDivInt(Raw(matched), Cardinality(matched))

\* the sum of the capped ratios divided by the number of required nutrients,
\* not by the number matched
calculate_nutritional_score_all_required(food_item, trimester) ==
    LET nutrition    == get_nutritional_info(food_item)
        requirements == Get(trimester_requirements, trimester,
                            trimester_requirements[1])
        matched      == DOMAIN requirements \cap DOMAIN nutrition
    IN  IF DOMAIN nutrition = {} \/ matched = {} THEN Half
        ELSE RMin(RDivInt(SumScores(matched, nutrition, requirements),
                          Cardinality(DOMAIN requirements)), One)

calculate_nutritional_score(food_item, trimester) ==
    LET nutrition    == get_nutritional_info(food_item)
        requirements == Get(trimester_requirements, trimester,
                            trimester_requirements[1])
        matched      == DOMAIN requirements \cap DOMAIN nutrition
        matched_nutrients == Cardinality(matched)
    IN  IF DOMAIN nutrition = {} THEN Half
        ELSE IF matched_nutrients > 0
             THEN RMin(RDivInt(SumScores(matched, nutrition, requirements),
                               matched_nutrients), One)
             ELSE RMin(Half, One)

SugarLimit == 15
SodiumLimit == 200

Warning(msg, arg) == [msg |-> msg, arg |-> arg]

\* the loop run to its end: the index of the last matching allergy
FirstAllergen_last(allergies, food_name_lower) ==
    LET hits == {i \in 1..Len(allergies) :
                    IsSubstring(Lower(allergies[i]), food_name_lower)}
    IN  IF hits = {} THEN 0
        ELSE CHOOSE i \in hits : \A j \in hits : i >= j

\* index of the first allergy whose lowercased text is in the lowercased name,
\* 0 when no allergy matches
FirstAllergen(allergies, food_name_lower) ==
    LET hits == {i \in 1..Len(allergies) :
                    IsSubstring(Lower(allergies[i]), food_name_lower)}
    IN  IF hits = {} THEN 0
        ELSE CHOOSE i \in hits : \A j \in hits : i <= j

\* a screening in which a high-sugar food under the diabetes flag is unsafe
check_safety_sugar_blocks(food_item, user_health_conditions) ==
    LET allergies == Get(user_health_conditions, "allergies", <<>>)
        hit == FirstAllergen(allergies, Lower(food_item.name_english))
        high == Get(user_health_conditions, "diabetes", FALSE)
                /\ Get(get_nutritional_info(food_item), "sugar", 0) > SugarLimit
    IN  [is_safe |-> hit = 0 /\ ~high, warnings |-> <<>>]

check_safety(food_item, user_health_conditions) ==
    LET allergies == Get(user_health_conditions, "allergies", <<>>)
        food_name_lower == Lower(food_item.name_english)
        hit == FirstAllergen(allergies, food_name_lower)
        nutrition == get_nutritional_info(food_item)
        sugar == IF Get(user_health_conditions, "diabetes", FALSE)
                    /\ Get(nutrition, "sugar", 0) > SugarLimit
                 THEN <<Warning("High sugar content - consume in moderation", <<>>)>>
                 ELSE <<>>
        sodium == IF Get(user_health_conditions, "hypertension", FALSE)
                     /\ Get(nutrition, "sodium", 0) > SodiumLimit
                  THEN <<Warning("High sodium - limit intake", <<>>)>>
                  ELSE <<>>
        precaution == IF food_item.precautions # ""
                      THEN <<Warning(food_item.precautions, <<>>)>>
                      ELSE <<>>
    IN  IF hit # 0
        THEN [is_safe |-> FALSE,
              warnings |-> <<Warning("Contains allergen: ", allergies[hit])>>]
        ELSE [is_safe |-> TRUE, warnings |-> sugar \o sodium \o precaution]

(***************************************************************************)
(* Inputs: names, nutrient maps, health conditions                         *)
(***************************************************************************)
Milk     == <<"M","i","l","k">>
Rice     == <<"R","i","c","e">>
Paneer   == <<"P","a","n","e","e","r">>
Almonds  == <<"A","l","m","o","n","d","s">>
Papaya   == <<"P","a","p","a","y","a">>
Spinach  == <<"S","p","i","n","a","c","h">>
Dates    == <<"D","a","t","e","s">>
Lentils  == <<"L","e","n","t","i","l","s">>
Yogurt      == <<"Y","o","g","u","r","t">>
Ghee        == <<"G","h","e","e">>
Eggs        == <<"E","g","g","s">>
Chickpeas   == <<"C","h","i","c","k","p","e","a","s">>
Pomegranate == <<"P","o","m","e","g","r","a","n","a","t","e">>
Fenugreek   == <<"F","e","n","u","g","r","e","e","k">>
Laddu       == <<"L","a","d","d","u">>
Wheat       == <<"W","h","e","a","t">>
Dahi        == <<"D","a","h","i">>
Doodh       == <<"D","o","o","d","h">>

\* every dict whose keys are among `keys` (at most `most` of them), values in `vals`
PartialMaps(keys, vals, most) ==
    UNION {[s -> vals] : s \in {k \in SUBSET keys : Cardinality(k) <= most}}

AllergyLists ==
    { <<>>, << <<"m","i","l","k">> >>, << <<"M","I","L","K">> >>,
      << <<"n","u","t">>, <<"i","c","e">> >>,
      << <<"I","c","e">>, <<"a","l">> >>, << <<>> >>,
      << <<"m","o","n","d">>, <<"A","L">> >> }

\* the user's health_conditions dict: every key is optional
HealthConditions ==
    { a @@ d @@ h :
        a \in {EmptyDict} \cup {("allergies" :> l) : l \in AllergyLists},
        d \in {EmptyDict} \cup {("diabetes" :> b) : b \in BOOLEAN},
        h \in {EmptyDict} \cup {("hypertension" :> b) : b \in BOOLEAN} }

idlePlan ==
    /\ days = 0
    /\ safe_foods = <<>>
    /\ used_foods = {}
    /\ day = 0
    /\ slot = 0
    /\ day_meals = EmptyDict
    /\ meal_plan = <<>>

\* no recommendation stored yet; a fresh chatbot instance
\* no chatbot constructed, no thread inside get_chatbot
idleSingleton ==
    /\ _chatbot_instance = <<>>
    /\ _chatbot = <<>>
    /\ instances = 0
    /\ threads = <<>>

idleApp ==
    /\ recommendations = <<>>
    /\ models_loaded = FALSE
    /\ idleSingleton

(***************************************************************************)
(* SpecScore: calculate_nutritional_score on bounded inputs                *)
(***************************************************************************)
MaxNutrients == 3

ScoreNutrients == {"iron", "calcium", "protein", "fiber", "sugar"}
ScoreAmounts == {0, 9, 27, 1200}

ScoreFoods ==
    { FoodItem(1, Rice, "", "grains", n, EmptyDict, "", "") :
        n \in PartialMaps(ScoreNutrients, ScoreAmounts, MaxNutrients) }

InitScore ==
    /\ op = "score"
    /\ args \in [food_item : ScoreFoods, trimester : 1..3]
    /\ pc = "call"
    /\ ret = None
    /\ foods = <<>>
    /\ user = None
    /\ interactions = <<>>
    /\ idlePlan
    /\ idleApp

Score ==
    /\ op = "score"
    /\ pc = "call"
    /\ ret' = calculate_nutritional_score(args.food_item, args.trimester)
    /\ pc' = "done"
    /\ UNCHANGED <<appVars, foods, user, interactions, op, args, planVars>>

NextScore == Score

SpecScore == InitScore /\ [][NextScore]_vars

(***************************************************************************)
(* SpecSafety: check_safety on bounded inputs                              *)
(***************************************************************************)
SafetyNames == {Milk, Rice, Almonds}
SafetyNutrition ==
    PartialMaps({"sugar"}, {SugarLimit, SugarLimit + 1}, 1)
SafetySodium ==
    PartialMaps({"sodium"}, {SodiumLimit, SodiumLimit + 1}, 1)

SafetyFoods ==
    { FoodItem(1, n, "", "dairy", su @@ so, EmptyDict, "", p) :
        n \in SafetyNames, su \in SafetyNutrition, so \in SafetySodium,
        p \in {"", "Always boil before consumption."} }

InitSafety ==
    /\ op = "check_safety"
    /\ args \in [food_item : SafetyFoods,
                 user_health_conditions : HealthConditions]
    /\ pc = "call"
    /\ ret = None
    /\ foods = <<>>
    /\ user = None
    /\ interactions = <<>>
    /\ idlePlan
    /\ idleApp

CheckSafety ==
    /\ op = "check_safety"
    /\ pc = "call"
    /\ ret' = check_safety(args.food_item, args.user_health_conditions)
    /\ pc' = "done"
    /\ UNCHANGED <<appVars, foods, user, interactions, op, args, planVars>>

NextSafety == CheckSafety

SpecSafety == InitSafety /\ [][NextSafety]_vars

(***************************************************************************)
(* Properties of check_safety                                              *)
(***************************************************************************)
AllergenMatches(food_item, health) ==
    LET allergies == Get(health, "allergies", <<>>)
    IN  \E i \in 1..Len(allergies) :
            IsSubstring(Lower(allergies[i]), Lower(food_item.name_english))

\* the same food with other sugar and sodium amounts and precaution text
SafetyVariants(food_item) ==
    {f \in SafetyFoods : f.name_english = food_item.name_english}

\* the same allergies under other diabetes and hypertension flags
FlagVariants(health) ==
    {h \in HealthConditions :
        Get(h, "allergies", <<>>) = Get(health, "allergies", <<>>)}

\* C2: check_safety returns is_safe = False exactly when some allergen,
\* lowercased, is a substring of the lowercased English name; the diabetes and
\* hypertension flags, the sugar and sodium amounts and the precaution text
\* never change is_safe.
C2_SafeIffNoAllergen ==
    (op = "check_safety" /\ pc = "done") =>
        /\ ret.is_safe = ~AllergenMatches(args.food_item,
                                          args.user_health_conditions)
        /\ \A f \in SafetyVariants(args.food_item) :
           \A h \in FlagVariants(args.user_health_conditions) :
               check_safety(f, h).is_safe = ret.is_safe

\* a high-sugar, high-sodium food with a precaution, both flags set, no
\* allergen matching: safe, with all three advisory warnings
C2_Witness ==
    /\ op = "check_safety"
    /\ pc = "done"
    /\ Get(args.user_health_conditions, "diabetes", FALSE)
    /\ Get(args.user_health_conditions, "hypertension", FALSE)
    /\ Get(args.user_health_conditions, "allergies", <<>>) # <<>>
    /\ ret.is_safe
    /\ Len(ret.warnings) = 3

(***************************************************************************)
(* Properties of calculate_nutritional_score                               *)
(***************************************************************************)
\* C10: for every food and every trimester in 1..3 the score lies in [0, 1].
C10_ScoreInUnitInterval ==
    (op = "score" /\ pc = "done") => RLe(Zero, ret) /\ RLe(ret, One)

\* a food whose only matched nutrient exceeds the requirement scores exactly 1
C10_Witness ==
    /\ op = "score"
    /\ pc = "done"
    /\ DOMAIN args.food_item.nutritional_info = {"iron"}
    /\ args.food_item.nutritional_info["iron"] = 1200
    /\ ret = One

\* the nutrient names present in both the food's map and the trimester's table
SharedNutrients(food_item, trimester) ==
    DOMAIN food_item.nutritional_info \cap DOMAIN trimester_requirements[trimester]

\* min(foodAmount / requiredAmount, 1.0) for one shared nutrient
CappedRatio(food_item, trimester, n) ==
    LET required == trimester_requirements[trimester][n]
        ratio    == Rat(food_item.nutritional_info[n] * required[2], required[1])
    IN  IF RLt(ratio, One) THEN ratio ELSE One

RECURSIVE SumCapped(_, _, _)
SumCapped(food_item, trimester, names) ==
    IF names = {} THEN Zero
    ELSE LET n == CHOOSE x \in names : TRUE
         IN  RAdd(CappedRatio(food_item, trimester, n),
                  SumCapped(food_item, trimester, names \ {n}))

MeanCapped(food_item, trimester) ==
    LET shared == SharedNutrients(food_item, trimester)
    IN  RDivInt(SumCapped(food_item, trimester, shared), Cardinality(shared))

\* C11: the score is exactly 0.5 when the food's nutrient map is empty and
\* when no nutrient name is in both the food's map and the trimester's
\* requirement table; otherwise it is the mean of
\* min(foodAmount / requiredAmount, 1.0) over exactly the shared nutrients.
C11_ScoreIsMeanOrHalf ==
    (op = "score" /\ pc = "done") =>
        ret = IF SharedNutrients(args.food_item, args.trimester) = {}
              THEN Half
              ELSE MeanCapped(args.food_item, args.trimester)

\* trimester 1, iron 9 of 27 and calcium 1200 of 1000, with sugar not in the
\* table: (1/3 + 1) / 2 = 2/3
C11_Witness ==
    /\ op = "score"
    /\ pc = "done"
    /\ args.trimester = 1
    /\ DOMAIN args.food_item.nutritional_info = {"iron", "calcium", "sugar"}
    /\ args.food_item.nutritional_info["iron"] = 9
    /\ args.food_item.nutritional_info["calcium"] = 1200
    /\ ret = <<2, 3>>

(***************************************************************************)
(* The food_items table the ranking and planning runs draw from            *)
(***************************************************************************)
AllTrue == [trimester_1 |-> TRUE, trimester_2 |-> TRUE, trimester_3 |-> TRUE,
            all_trimesters |-> TRUE]

Pantry ==
    << FoodItem(1, Spinach, "Palak", "vegetables",
                [iron |-> 9, calcium |-> 100, folic_acid |-> 200, calories |-> 20],
                AllTrue, "All India", "Wash thoroughly."),
       FoodItem(2, Milk, "Doodh", "dairy",
                [calcium |-> 200, protein |-> 6, calories |-> 60],
                AllTrue, "All India", "Always boil before consumption."),
       FoodItem(3, Rice, "Chawal", "grains",
                [protein |-> 3, fiber |-> 7, calories |-> 120],
                EmptyDict, "All India", ""),
       FoodItem(4, Papaya, "Papita", "fruits",
                [fiber |-> 14, sugar |-> 16, calories |-> 40],
                [trimester_1 |-> FALSE, trimester_2 |-> FALSE,
                 trimester_3 |-> TRUE],
                "South Indian", "AVOID unripe papaya."),
       FoodItem(5, Almonds, "Badam", "dry_fruits",
                [calcium |-> 300, iron |-> 3, fiber |-> 14],
                [all_trimesters |-> TRUE], "North Indian", ""),
       FoodItem(6, Paneer, "Paneer", "dairy",
                [calcium |-> 500, protein |-> 18, sodium |-> 201],
                AllTrue, "North Indian", ""),
       FoodItem(7, Yogurt, "Dahi", "dairy",
                [calcium |-> 100],
                AllTrue, "All India", ""),
       FoodItem(8, Dates, "Khajoor", "dry_fruits",
                [iron |-> 1, sugar |-> 60],
                [trimester_1 |-> FALSE, trimester_2 |-> TRUE,
                 trimester_3 |-> TRUE, all_trimesters |-> TRUE],
                "All India", "Avoid in first trimester."),
       FoodItem(9, Ghee, "Ghee", "dairy",
                EmptyDict, AllTrue, "All India", ""),
       FoodItem(10, Eggs, "Anda", "proteins",
                [protein |-> 12, iron |-> 1],
                AllTrue, "All India", "Always cook fully."),
       FoodItem(11, Lentils, "Dal", "lentils",
                [protein |-> 9, iron |-> 3, fiber |-> 7],
                AllTrue, "All India", ""),
       FoodItem(12, Chickpeas, "Chana", "lentils",
                [protein |-> 18, fiber |-> 14],
                AllTrue, "North Indian", ""),
       FoodItem(13, Pomegranate, "Anar", "fruits",
                [iron |-> 0, fiber |-> 4],
                AllTrue, "All India", ""),
       FoodItem(14, Fenugreek, "Methi", "vegetables",
                [iron |-> 27, calcium |-> 100],
                [trimester_1 |-> FALSE, trimester_2 |-> FALSE,
                 trimester_3 |-> TRUE],
                "North Indian", "Avoid in first two trimesters."),
       FoodItem(15, Laddu, "Laddu", "traditional",
                [sugar |-> 40, calcium |-> 50],
                EmptyDict, "North Indian", ""),
       FoodItem(16, Wheat, "Gehun", "grains",
                [protein |-> 12, fiber |-> 7, iron |-> 3],
                AllTrue, "North Indian", ""),
       FoodItem(17, Dahi, "Dahi", "dairy",
                [calcium |-> 100, protein |-> 3],
                AllTrue, "North Indian", "") >>

\* the rows of the table with the given ids, in primary-key order
Rows(ids) == SelectSeq(Pantry, LAMBDA f : f.id \in ids)

(***************************************************************************)
(* models/user.py                                                          *)
(***************************************************************************)
User(id, current_trimester, dietary_preferences, health_conditions) ==
    [id |-> id, current_trimester |-> current_trimester,
     dietary_preferences |-> dietary_preferences,
     health_conditions |-> health_conditions]

get_health_conditions(u) == u.health_conditions

(***************************************************************************)
(* models/interaction.py                                                   *)
(***************************************************************************)
UserInteraction(user_id, food_item_id, interaction_type) ==
    [user_id |-> user_id, food_item_id |-> food_item_id,
     interaction_type |-> interaction_type]

(***************************************************************************)
(* Python list slicing and sorting                                         *)
(***************************************************************************)
\* s[:n], for n of either sign
Prefix(s, n) ==
    LET stop == IF n >= 0 THEN (IF n < Len(s) THEN n ELSE Len(s))
                ELSE (IF Len(s) + n > 0 THEN Len(s) + n ELSE 0)
    IN  SubSeq(s, 1, stop)

\* x placed before the elements that tie with it: the order of a sort that
\* is not stable
InsertDesc_before_ties(sorted, x) ==
    LET lower == {i \in 1..Len(sorted) : RLe(sorted[i].score, x.score)}
        at == IF lower = {} THEN Len(sorted) + 1
              ELSE CHOOSE i \in lower : \A j \in lower : i <= j
    IN  SubSeq(sorted, 1, at - 1) \o <<x>> \o SubSeq(sorted, at, Len(sorted))

\* x placed after every element whose score is not below x's
InsertDesc(sorted, x) ==
    LET lower == {i \in 1..Len(sorted) : RLt(sorted[i].score, x.score)}
        at == IF lower = {} THEN Len(sorted) + 1
              ELSE CHOOSE i \in lower : \A j \in lower : i <= j
    IN  SubSeq(sorted, 1, at - 1) \o <<x>> \o SubSeq(sorted, at, Len(sorted))

\* list.sort(key=score, reverse=True): stable, descending
RECURSIVE SortDesc(_)
SortDesc(s) ==
    IF s = <<>> THEN <<>>
    ELSE InsertDesc(SortDesc(SubSeq(s, 1, Len(s) - 1)), s[Len(s)])

(***************************************************************************)
(* ai_engine/recommender.py                                                *)
(***************************************************************************)
_matches_dietary_preference(food, preference) ==
    ~ ( /\ preference = "vegan"
        /\ food.category \in {"dairy", "proteins"}
        /\ \/ IsSubstring(<<"p","a","n","e","e","r">>, Lower(food.name_english))
           \/ IsSubstring(<<"d","a","h","i">>, Lower(food.name_english)) )

trimester_key(trimester) ==
    CASE trimester = 1 -> "trimester_1"
      [] trimester = 2 -> "trimester_2"
      [] trimester = 3 -> "trimester_3"

_get_trimester_score(food, trimester) ==
    LET suitability == get_trimester_suitability(food)
    IN  IF DOMAIN suitability = {} THEN Half
        ELSE IF trimester_key(trimester) \in DOMAIN suitability THEN <<9, 10>>
        ELSE IF Get(suitability, "all_trimesters", FALSE) THEN <<7, 10>>
        ELSE Half

RecentLimit == 10

\* filter_by(user_id, food_item_id).order_by(timestamp.desc()).limit(10):
\* the newest first
\* the query without .limit(10): every interaction of the pair, newest first
recent_interactions_unlimited(log, food, u) ==
    LET mine == SelectSeq(log, LAMBDA r : r.user_id = u.id
                                          /\ r.food_item_id = food.id)
        n == Len(mine)
    IN  [i \in 1..n |-> mine[n + 1 - i]]

recent_interactions(log, food, u) ==
    LET mine == SelectSeq(log, LAMBDA r : r.user_id = u.id
                                          /\ r.food_item_id = food.id)
        n == Len(mine)
        k == IF n < RecentLimit THEN n ELSE RecentLimit
    IN  [i \in 1..k |-> mine[n + 1 - i]]

interaction_delta(interaction_type) ==
    CASE interaction_type = "like"     -> <<1, 10>>
      [] interaction_type = "dislike"  -> <<-1, 5>>
      [] interaction_type = "bookmark" -> <<1, 20>>
      [] interaction_type = "view"     -> <<1, 100>>
      [] OTHER                         -> Zero

RECURSIVE SumDeltas(_, _)
SumDeltas(recent, i) ==
    IF i > Len(recent) THEN Zero
    ELSE RAdd(interaction_delta(recent[i].interaction_type),
              SumDeltas(recent, i + 1))

_get_user_preference_score(log, food, u) ==
    LET recent == recent_interactions(log, food, u)
    IN  IF recent = <<>> THEN Half
        ELSE RMax(Zero, RMin(One, RAdd(Half, SumDeltas(recent, 1))))

\* the cap computed from half of max_items instead of a quarter
max_per_category_half(max_items) ==
    IF max_items \div 2 > 2 THEN max_items \div 2 ELSE 2

max_per_category(max_items) ==
    IF max_items \div 4 > 2 THEN max_items \div 4 ELSE 2

\* the first loop of _ensure_variety, from position i on
RECURSIVE CappedWalk(_, _, _, _, _)
CappedWalk(scored_foods, i, selected, category_counts, max_items) ==
    IF i > Len(scored_foods) THEN selected
    ELSE LET item == scored_foods[i]
             category == item.food.category
             count == Get(category_counts, category, 0)
             admit == count < max_per_category(max_items)
             selected2 == IF admit THEN Append(selected, item) ELSE selected
             counts2 == IF admit
                        THEN (category :> count + 1) @@ category_counts
                        ELSE category_counts
         IN  IF Len(selected2) >= max_items THEN selected2
             ELSE CappedWalk(scored_foods, i + 1, selected2, counts2, max_items)

InSeq(x, s) == \E j \in 1..Len(s) : s[j] = x

\* the second loop of _ensure_variety, from position i on
RECURSIVE FillWalk(_, _, _, _)
FillWalk(scored_foods, i, selected, max_items) ==
    IF i > Len(scored_foods) THEN selected
    ELSE LET item == scored_foods[i]
             selected2 == IF ~InSeq(item, selected)
                          THEN Append(selected, item) ELSE selected
         IN  IF Len(selected2) >= max_items THEN selected2
             ELSE FillWalk(scored_foods, i + 1, selected2, max_items)

\* the capped loop alone: the second loop left out
_ensure_variety_no_fill(scored_foods, max_items) ==
    CappedWalk(scored_foods, 1, <<>>, EmptyDict, max_items)

_ensure_variety(scored_foods, max_items) ==
    LET selected == CappedWalk(scored_foods, 1, <<>>, EmptyDict, max_items)
    IN  IF Len(selected) < max_items
        THEN FillWalk(scored_foods, 1, selected, max_items)
        ELSE selected

\* one entry of scored_foods
ScoredFood(log, food, u) ==
    LET nutrition_score == calculate_nutritional_score(food, u.current_trimester)
        trimester_score == _get_trimester_score(food, u.current_trimester)
        preference_score == _get_user_preference_score(log, food, u)
    IN  [food |-> food,
         score |-> RAdd(RMul(nutrition_score, <<2, 5>>),
                        RAdd(RMul(trimester_score, <<3, 10>>),
                             RMul(preference_score, <<3, 10>>))),
         warnings |-> check_safety(food, get_health_conditions(u)).warnings,
         nutrition_score |-> nutrition_score,
         trimester_score |-> trimester_score,
         preference_score |-> preference_score]

\* the scoring loop without the `if not is_safe: continue`
ScoredFoods_unscreened(all_foods, log, u) ==
    LET kept == SelectSeq(all_foods, LAMBDA food :
                    _matches_dietary_preference(food, u.dietary_preferences))
    IN  [i \in 1..Len(kept) |-> ScoredFood(log, kept[i], u)]

\* the scoring loop of get_recommendations: unsafe foods and foods that do
\* not match the dietary preference are skipped
ScoredFoods(all_foods, log, u) ==
    LET kept == SelectSeq(all_foods, LAMBDA food :
                    /\ check_safety(food, get_health_conditions(u)).is_safe
                    /\ _matches_dietary_preference(food, u.dietary_preferences))
    IN  [i \in 1..Len(kept) |-> ScoredFood(log, kept[i], u)]

\* sorted, cut to twice max_items: the pool handed to _ensure_variety
top_foods(all_foods, log, u, max_items) ==
    Prefix(SortDesc(ScoredFoods(all_foods, log, u)), max_items * 2)

\* the pool returned as it is, neither thinned nor cut to max_items
get_recommendations_pool(all_foods, log, u, max_items) ==
    IF all_foods = <<>> THEN <<>>
    ELSE top_foods(all_foods, log, u, max_items)

get_recommendations(all_foods, log, u, max_items) ==
    IF all_foods = <<>> THEN <<>>
    ELSE Prefix(_ensure_variety(top_foods(all_foods, log, u, max_items),
                                max_items),
                max_items)

(***************************************************************************)
(* SpecRank: one get_recommendations request                               *)
(***************************************************************************)
MaxCatalog == 4
MaxItems == 3

\* the first SmallPantry rows supply the small tables
SmallPantry == 8

RankHealth ==
    { EmptyDict,
      [allergies |-> << <<"M","i","l","k">> >>, diabetes |-> TRUE],
      [allergies |-> << <<"n","u","t">>, <<"i","c","e">> >>,
       hypertension |-> TRUE] }

RankUsers ==
    { User(1, t, d, h) : t \in 1..3, d \in {"vegetarian", "vegan"},
                         h \in RankHealth }

RankLogs ==
    { <<>>,
      << UserInteraction(1, 3, "like"), UserInteraction(1, 2, "dislike"),
         UserInteraction(2, 3, "dislike"), UserInteraction(1, 3, "like"),
         UserInteraction(1, 7, "view"), UserInteraction(1, 5, "bookmark") >> }

SmallTables ==
    { Rows(ids) : ids \in {x \in SUBSET (1..SmallPantry) :
                              Cardinality(x) <= MaxCatalog} }

\* two dairy foods that tie, and a third that ties with a grain
TieShelf ==
    << FoodItem(31, Milk, "Doodh", "dairy", [protein |-> 12], AllTrue, "", ""),
       FoodItem(32, Yogurt, "Dahi", "dairy", [protein |-> 12], AllTrue, "", ""),
       FoodItem(33, Paneer, "Paneer", "dairy", [protein |-> 6], AllTrue, "", ""),
       FoodItem(34, Rice, "Chawal", "grains", [protein |-> 6], AllTrue, "", "") >>

\* a request on a small table, a dozen items asked of the whole table, or
\* three or four asked of the shelf of ties
RankRequests ==
    [foods : SmallTables, max_items : 0..MaxItems]
        \cup [foods : {Pantry}, max_items : {8, 12}]
        \cup [foods : {TieShelf}, max_items : {3, 4}]

InitRank ==
    /\ op = "get_recommendations"
    /\ \E r \in RankRequests :
        /\ foods = r.foods
        /\ args = [max_items |-> r.max_items]
    /\ user \in RankUsers
    /\ interactions \in RankLogs
    /\ pc = "call"
    /\ ret = None
    /\ idlePlan
    /\ idleApp

GetRecommendations ==
    /\ op = "get_recommendations"
    /\ pc = "call"
    /\ ret' = get_recommendations(foods, interactions, user, args.max_items)
    /\ pc' = "done"
    /\ UNCHANGED <<appVars, foods, user, interactions, op, args, planVars>>

NextRank == GetRecommendations

SpecRank == InitRank /\ [][NextRank]_vars

(***************************************************************************)
(* Properties of get_recommendations                                       *)
(***************************************************************************)
RankDone == op = "get_recommendations" /\ pc = "done"

\* C1: no food in the output of get_recommendations has a configured allergen
\* as a case-insensitive substring of its English name.
C1_RankOnlySafeFoods ==
    RankDone =>
        \A i \in 1..Len(ret) :
            ~AllergenMatches(ret[i].food, user.health_conditions)

\* the table holds a food the user is allergic to, and the output is full
C1_Witness ==
    /\ RankDone
    /\ \E i \in 1..Len(foods) : AllergenMatches(foods[i], user.health_conditions)
    /\ args.max_items > 0
    /\ Len(ret) = args.max_items

\* how many entries of a list of scored foods have the category
CategoryCount(scored, category) ==
    Cardinality({i \in 1..Len(scored) : scored[i].food.category = category})

CategoriesOf(scored) == {scored[i].food.category : i \in 1..Len(scored)}

RECURSIVE CappedTotal(_, _, _)
\* the number of foods a walk over the whole pool admits under the cap
CappedTotal(pool, categories, cap) ==
    IF categories = {} THEN 0
    ELSE LET c == CHOOSE x \in categories : TRUE
             n == CategoryCount(pool, c)
         IN  (IF n < cap THEN n ELSE cap)
                 + CappedTotal(pool, categories \ {c}, cap)

RankPool == top_foods(foods, interactions, user, args.max_items)

RankCap == IF args.max_items \div 4 > 2 THEN args.max_items \div 4 ELSE 2

\* the capped walk reached the end of the pool with fewer than max_items admitted
PoolExhausted ==
    CappedTotal(RankPool, CategoriesOf(RankPool), RankCap) < args.max_items

\* C3: no category contributes more than max(2, max_items // 4) foods to the
\* output, unless the capped walk exhausted the pool before max_items foods
\* were admitted.
C3_CategoryCap ==
    RankDone =>
        \/ PoolExhausted
        \/ \A c \in CategoriesOf(ret) : CategoryCount(ret, c) <= RankCap

\* a dozen items asked for: the cap is 3, the pool holds more than 3 foods of
\* one category and the output holds exactly 3 of them
C3_Witness ==
    /\ RankDone
    /\ ~PoolExhausted
    /\ RankCap = 3
    /\ \E c \in CategoriesOf(RankPool) :
        /\ CategoryCount(RankPool, c) > RankCap
        /\ CategoryCount(ret, c) = RankCap

\* C4: get_recommendations returns at most max_items candidates.
C4_AtMostMaxItems ==
    RankDone => Len(ret) <= args.max_items

\* more eligible foods than asked for, and exactly max_items returned
C4_Witness ==
    /\ RankDone
    /\ args.max_items > 0
    /\ Len(ScoredFoods(foods, interactions, user)) > args.max_items
    /\ Len(ret) = args.max_items

(***************************************************************************)
(* ai_engine/meal_planner.py                                               *)
(***************************************************************************)
meal_types ==
    <<"breakfast", "mid_morning_snack", "lunch", "evening_snack", "dinner">>

meal_categories ==
    [breakfast         |-> {"grains", "dairy", "fruits", "proteins"},
     mid_morning_snack |-> {"fruits", "dry_fruits", "dairy"},
     lunch             |-> {"grains", "vegetables", "proteins", "lentils", "dairy"},
     evening_snack     |-> {"fruits", "dry_fruits", "dairy", "vegetables"},
     dinner            |-> {"grains", "vegetables", "lentils", "dairy"}]

\* 'snack' in meal_type: true of exactly two of the five meal types
IsSnack(meal_type) == meal_type \in {"mid_morning_snack", "evening_snack"}

DaysMin == 1
DaysMax == 30
reset_interval == 3

\* max(1, days): the upper limit left out
ClampDays_floor_only(d) == IF d > DaysMin THEN d ELSE DaysMin

\* max(1, min(days, 30))
ClampDays(d) ==
    LET low == IF d < DaysMax THEN d ELSE DaysMax
    IN  IF low > DaysMin THEN low ELSE DaysMin

_filter_by_diet(all_foods, diet_type) ==
    IF diet_type = "vegan"
    THEN SelectSeq(all_foods, LAMBDA f : f.category \notin {"dairy", "proteins"})
    ELSE all_foods

\* the health check alone, the trimester test left out
_filter_safe_foods_any_trimester(all_foods, u) ==
    SelectSeq(all_foods, LAMBDA food :
        check_safety(food, get_health_conditions(u)).is_safe)

_filter_safe_foods(all_foods, u) ==
    SelectSeq(all_foods, LAMBDA food :
        LET trimester_suit == get_trimester_suitability(food)
        IN  /\ \/ Get(trimester_suit, trimester_key(u.current_trimester), TRUE)
               \/ Get(trimester_suit, "all_trimesters", FALSE)
            /\ check_safety(food, get_health_conditions(u)).is_safe)

\* the query and the three filters of generate_meal_plan; None and "" both
\* count as no region, no diet type
FilteredFoods(table, u, region, diet_type) ==
    LET by_region == IF region # ""
                     THEN SelectSeq(table, LAMBDA f : f.regional_origin = region)
                     ELSE table
        by_diet == IF diet_type # "" THEN _filter_by_diet(by_region, diet_type)
                   ELSE by_region
    IN  _filter_safe_foods(_filter_by_diet(by_diet, u.dietary_preferences), u)

\* the unused foods of the meal type's categories, with no second try
meal_foods_no_reuse(available_foods, meal_type, used) ==
    SelectSeq(available_foods, LAMBDA f :
        f.category \in meal_categories[meal_type] /\ f.id \notin used)

\* every food of the meal type's categories, used or not
meal_foods_ignores_used(available_foods, meal_type, used) ==
    SelectSeq(available_foods, LAMBDA f :
        f.category \in meal_categories[meal_type])

\* the foods a meal type may draw from: the unused ones of its categories,
\* or all of its categories when none is unused
meal_foods(available_foods, meal_type, used) ==
    LET unused == SelectSeq(available_foods, LAMBDA f :
                      f.category \in meal_categories[meal_type]
                      /\ f.id \notin used)
    IN  IF unused # <<>> THEN unused
        ELSE SelectSeq(available_foods, LAMBDA f :
                 f.category \in meal_categories[meal_type])

\* scored and sorted by score, the whole list kept
meal_top_foods_uncut(candidates, u, num_items) ==
    SortDesc([i \in 1..Len(candidates) |->
                [food |-> candidates[i],
                 score |-> calculate_nutritional_score(candidates[i],
                                                       u.current_trimester)]])

\* scored, sorted by score and cut to twice num_items
meal_top_foods(candidates, u, num_items) ==
    Prefix(SortDesc([i \in 1..Len(candidates) |->
                [food |-> candidates[i],
                 score |-> calculate_nutritional_score(candidates[i],
                                                       u.current_trimester)]]),
           num_items * 2)

\* random.sample(population, k): every ordering of every k distinct positions
Samples(population, k) ==
    { [i \in 1..k |-> population[pos[i]]] :
        pos \in {q \in [1..k -> 1..Len(population)] :
                    \A i, j \in 1..k : i # j => q[i] # q[j]} }

MealEntry(food) ==
    [id |-> food.id, name |-> food.name_english,
     name_hindi |-> food.name_hindi, category |-> food.category]

TotalNutrients ==
    {"calories", "protein", "iron", "calcium", "fiber", "folic_acid"}

\* FoodItem.query.get(id): the row with the id, as a list of at most one row
QueryGet(table, id) == SelectSeq(table, LAMBDA f : f.id = id)

RECURSIVE SumFoods(_, _, _, _)
\* the nutrient summed over entries[i..] of one meal
SumFoods(table, entries, i, nutrient) ==
    IF i > Len(entries) THEN 0
    ELSE LET row == QueryGet(table, entries[i].id)
             amount == IF row # <<>>
                       THEN Get(get_nutritional_info(row[1]), nutrient, 0)
                       ELSE 0
         IN  amount + SumFoods(table, entries, i + 1, nutrient)

RECURSIVE SumMeals(_, _, _, _)
SumMeals(table, meals, types, nutrient) ==
    IF types = {} THEN 0
    ELSE LET t == CHOOSE x \in types : TRUE
         IN  SumFoods(table, meals[t], 1, nutrient)
                 + SumMeals(table, meals, types \ {t}, nutrient)

\* each food of the day counted once, however many meals hold it
_calculate_daily_nutrition_distinct(table, meals) ==
    LET ids == UNION {{meals[t][i].id : i \in 1..Len(meals[t])} : t \in DOMAIN meals}
        once == SelectSeq(table, LAMBDA f : f.id \in ids)
    IN  [n \in TotalNutrients |-> SumFoods(table, once, 1, n)]

_calculate_daily_nutrition(table, meals) ==
    [n \in TotalNutrients |-> SumMeals(table, meals, DOMAIN meals, n)]

RECURSIVE SumDays(_, _, _)
SumDays(plan, i, nutrient) ==
    IF i > Len(plan) THEN 0
    ELSE plan[i].daily_nutrition[nutrient] + SumDays(plan, i + 1, nutrient)

\* round(total / total_days, 2) in hundredths, ties to the even hundredth
RoundedMean(total, total_days) ==
    LET q == (total * 100) \div total_days
        r == (total * 100) % total_days
    IN  IF 2 * r > total_days \/ (2 * r = total_days /\ q % 2 = 1)
        THEN q + 1 ELSE q

_calculate_plan_summary(plan) ==
    [total_days |-> Len(plan),
     avg_daily  |-> [n \in TotalNutrients |->
                        RoundedMean(SumDays(plan, 1, n), Len(plan))]]

\* the names of one meal of one day, [] when the day has no such meal
TableCell(day_data, meal_type) ==
    LET entries == Get(day_data.meals, meal_type, <<>>)
    IN  [i \in 1..Len(entries) |-> entries[i].name]

_format_as_table(plan) ==
    [i \in 1..Len(plan) |->
        [day |-> plan[i].day,
         cells |-> [k \in 1..Len(meal_types) |-> TableCell(plan[i], meal_types[k])],
         calories |-> plan[i].daily_nutrition["calories"]]]

(***************************************************************************)
(* SpecPlan: one generate_meal_plan request, step by step                  *)
(***************************************************************************)
NoFoodsError ==
    [error |-> "No suitable foods found for your preferences",
     meal_plan |-> <<>>, nutrition_summary |-> EmptyDict]

\* the same without the `if not safe_foods` return
GenerateMealPlan_unchecked ==
    /\ op = "generate_meal_plan"
    /\ pc = "call"
    /\ days' = ClampDays(args.days)
    /\ safe_foods' = FilteredFoods(foods, user, args.region, args.diet_type)
    /\ pc' = "day"
    /\ day' = 1
    /\ UNCHANGED <<appVars, foods, user, interactions, op, args, ret,
                   used_foods, slot, day_meals, meal_plan>>

\* lines 52-83: clamp, query, filter, and the empty-set return
GenerateMealPlan ==
    /\ op = "generate_meal_plan"
    /\ pc = "call"
    /\ LET filtered == FilteredFoods(foods, user, args.region, args.diet_type)
       IN  /\ days' = ClampDays(args.days)
           /\ safe_foods' = filtered
           /\ IF filtered = <<>>
              THEN /\ ret' = NoFoodsError
                   /\ pc' = "done"
                   /\ day' = day
              ELSE /\ ret' = ret
                   /\ pc' = "day"
                   /\ day' = 1
    /\ UNCHANGED <<appVars, foods, user, interactions, op, args,
                   used_foods, slot, day_meals, meal_plan>>

\* the used set cleared at the head of every day
BeginDay_resets_daily ==
    /\ op = "generate_meal_plan"
    /\ pc = "day"
    /\ day <= days
    /\ used_foods' = {}
    /\ day_meals' = EmptyDict
    /\ slot' = 1
    /\ pc' = "meal"
    /\ UNCHANGED <<appVars, foods, user, interactions, op, args, ret,
                   days, safe_foods, day, meal_plan>>

\* lines 86-89: the head of the day loop and the periodic reset
BeginDay ==
    /\ op = "generate_meal_plan"
    /\ pc = "day"
    /\ day <= days
    /\ used_foods' = IF day % reset_interval = 0 THEN {} ELSE used_foods
    /\ day_meals' = EmptyDict
    /\ slot' = 1
    /\ pc' = "meal"
    /\ UNCHANGED <<appVars, foods, user, interactions, op, args, ret,
                   days, safe_foods, day, meal_plan>>

\* lines 147-200: one pass of the meal-type loop of _generate_day_meals
SelectMeal ==
    /\ op = "generate_meal_plan"
    /\ pc = "meal"
    /\ slot <= Len(meal_types)
    /\ LET meal_type == meal_types[slot]
           candidates == meal_foods(safe_foods, meal_type, used_foods)
       IN  IF candidates = <<>>
           THEN UNCHANGED <<used_foods, day_meals>>
           ELSE \E num_items \in (IF IsSnack(meal_type) THEN {2} ELSE {2, 3}) :
                LET top == meal_top_foods(candidates, user, num_items)
                    k == IF num_items < Len(top) THEN num_items ELSE Len(top)
                IN  \E selected \in Samples(top, k) :
                        /\ used_foods' = used_foods \cup
                               {selected[i].food.id : i \in 1..k}
                        /\ day_meals' = (meal_type :>
                               [i \in 1..k |-> MealEntry(selected[i].food)])
                               @@ day_meals
    /\ slot' = slot + 1
    /\ UNCHANGED <<appVars, foods, user, interactions, op, args, pc, ret,
                   days, safe_foods, day, meal_plan>>

\* lines 97-102: the day's entry is appended
EndDay ==
    /\ op = "generate_meal_plan"
    /\ pc = "meal"
    /\ slot > Len(meal_types)
    /\ meal_plan' = Append(meal_plan,
           [day |-> day, meals |-> day_meals,
            daily_nutrition |-> _calculate_daily_nutrition(foods, day_meals)])
    /\ day' = day + 1
    /\ pc' = "day"
    /\ UNCHANGED <<appVars, foods, user, interactions, op, args, ret,
                   days, safe_foods, used_foods, slot, day_meals>>

\* lines 104-111: the summary, the table and the return
ReturnPlan ==
    /\ op = "generate_meal_plan"
    /\ pc = "day"
    /\ day > days
    /\ ret' = [meal_plan |-> meal_plan,
               nutrition_summary |-> _calculate_plan_summary(meal_plan),
               table_format |-> _format_as_table(meal_plan)]
    /\ pc' = "done"
    /\ UNCHANGED <<appVars, foods, user, interactions, op, args, planVars>>

NextPlan == GenerateMealPlan \/ BeginDay \/ SelectMeal \/ EndDay \/ ReturnPlan

MaxPlanTable == 3
MaxBranchDays == 2

PlanUsers ==
    { User(1, t, dh[1], dh[2]) :
        t \in 1..3,
        dh \in { <<"vegetarian", EmptyDict>>, <<"vegan", EmptyDict>>,
                 <<"vegetarian", [allergies |-> << <<"M","I","L","K">>,
                                                  <<"r","i","c","e">> >>]>> } }

PlanDays == {-1, 0, 1, 2, 3, 4, DaysMax, DaysMax + 1} \cup (1..MaxBranchDays)

PlanTables ==
    { Rows(ids) : ids \in {x \in SUBSET (1..SmallPantry) :
                              Cardinality(x) <= MaxPlanTable} }

\* the most foods of a list that any one meal type may draw from
Width(available_foods) ==
    LET n(t) == Len(SelectSeq(available_foods,
                       LAMBDA f : f.category \in meal_categories[t]))
    IN  CHOOSE w \in 0..Len(available_foods) :
            /\ \A k \in 1..Len(meal_types) : n(meal_types[k]) <= w
            /\ \/ w = 0
               \/ \E k \in 1..Len(meal_types) : n(meal_types[k]) = w

PlainRequest(r) ==
    /\ r.region = ""
    /\ r.diet_type = ""
    /\ r.user.dietary_preferences = "vegetarian"
    /\ r.user.health_conditions = EmptyDict

Moong  == <<"M","o","o","n","g">>
Masoor == <<"M","a","s","o","o","r">>
Rajma  == <<"R","a","j","m","a">>
Urad   == <<"U","r","a","d">>
Toor   == <<"T","o","o","r">>

\* five lentils: lunch and dinner have more to draw from than they select
LentilShelf ==
    << FoodItem(21, Moong, "Moong", "lentils",
                [protein |-> 24, iron |-> 6], AllTrue, "All India", ""),
       FoodItem(22, Masoor, "Masoor", "lentils",
                [protein |-> 9, iron |-> 3], AllTrue, "All India", ""),
       FoodItem(23, Rajma, "Rajma", "lentils",
                [protein |-> 18, iron |-> 9], AllTrue, "North Indian", ""),
       FoodItem(24, Urad, "Urad", "lentils",
                [protein |-> 3], AllTrue, "All India", ""),
       FoodItem(25, Toor, "Toor", "lentils",
                [protein |-> 12, iron |-> 1], AllTrue, "All India", "") >>

\* Requests: one-day plans over every filter setting; plans of every length
\* where each meal type has at most one food to draw from; plans of a few
\* days over rice and yogurt, which the three main meals choose between;
\* plans that reach the first reset day over papaya, almonds and dates, which
\* the snacks choose between; and one-day plans over the five lentils.
PlanRequests ==
    { r \in [foods : PlanTables, user : PlanUsers, days : PlanDays,
             region : {"", "North Indian"}, diet_type : {"", "vegan"}] :
        LET w == Width(FilteredFoods(r.foods, r.user, r.region, r.diet_type))
        IN  \/ r.days = 1 /\ w <= 2
            \/ PlainRequest(r) /\ w <= 1
            \/ /\ PlainRequest(r)
               /\ r.foods = Rows({3, 7})
               /\ r.days \in 1..MaxBranchDays
            \/ /\ PlainRequest(r)
               /\ r.foods = Rows({4, 5, 8})
               /\ r.days = reset_interval }
    \cup [foods : {LentilShelf},
          user : {u \in PlanUsers : u.dietary_preferences = "vegetarian"
                                    /\ u.health_conditions = EmptyDict},
          days : {1}, region : {""}, diet_type : {""}]

InitPlan ==
    /\ op = "generate_meal_plan"
    /\ \E r \in PlanRequests :
        /\ foods = r.foods
        /\ user = r.user
        /\ args = [days |-> r.days, region |-> r.region,
                   diet_type |-> r.diet_type]
    /\ interactions = <<>>
    /\ pc = "call"
    /\ ret = None
    /\ idlePlan
    /\ idleApp

SpecPlan == InitPlan /\ [][NextPlan]_vars

(***************************************************************************)
(* Properties of generate_meal_plan                                        *)
(***************************************************************************)
PlanOp == op = "generate_meal_plan"
PlanDone == PlanOp /\ pc = "done"
PlanReturned == PlanDone /\ "error" \notin DOMAIN ret

\* the meals of every finished day, and of the day being generated
PlanMeals == {meal_plan[i].meals : i \in 1..Len(meal_plan)} \cup {day_meals}

\* the ids of the foods placed in any slot so far
PlacedIds ==
    UNION { UNION {{m[t][i].id : i \in 1..Len(m[t])} : t \in DOMAIN m} :
            m \in PlanMeals }

FoodById(id) == QueryGet(foods, id)[1]

MarkedTrue(food, trimester) ==
    Get(get_trimester_suitability(food), trimester_key(trimester), FALSE)

MarkedFalse(food, trimester) ==
    ~Get(get_trimester_suitability(food), trimester_key(trimester), TRUE)

AllTrimesters(food) ==
    Get(get_trimester_suitability(food), "all_trimesters", FALSE)

\* C5 as stated: every food placed in a slot passed check_safety and has its
\* suitability map marking the current trimester true, or has the
\* all_trimesters flag set.
C5_Original ==
    PlanOp =>
        \A id \in PlacedIds :
            /\ ~AllergenMatches(FoodById(id), user.health_conditions)
            /\ \/ MarkedTrue(FoodById(id), user.current_trimester)
               \/ AllTrimesters(FoodById(id))

\* C5, amended: every food placed in a slot passed check_safety, and its
\* suitability map does not mark the current trimester false (a map with no
\* key for the trimester counts as suitable) or sets the all_trimesters flag.
C5_PlacedFoodsSuitable ==
    PlanOp =>
        \A id \in PlacedIds :
            /\ ~AllergenMatches(FoodById(id), user.health_conditions)
            /\ \/ ~MarkedFalse(FoodById(id), user.current_trimester)
               \/ AllTrimesters(FoodById(id))

\* a returned plan over a table that held a food marked false for the
\* trimester (left out) and a food with no key for it (placed)
C5_Witness ==
    /\ PlanReturned
    /\ \E i \in 1..Len(foods) :
        /\ MarkedFalse(foods[i], user.current_trimester)
        /\ ~AllTrimesters(foods[i])
        /\ foods[i].id \notin PlacedIds
    /\ \E id \in PlacedIds :
        /\ ~MarkedTrue(FoodById(id), user.current_trimester)
        /\ ~AllTrimesters(FoodById(id))

ExpectedDays ==
    LET atLeastOne == IF args.days > 1 THEN args.days ELSE 1
    IN  IF atLeastOne < 30 THEN atLeastOne ELSE 30

\* C6: on a non-empty safe-food set generate_meal_plan returns exactly
\* min(max(days, 1), 30) day entries, numbered 1..n in increasing order, and
\* table_format has one row per day entry.
C6_DayEntries ==
    (PlanDone /\ safe_foods # <<>>) =>
        /\ "error" \notin DOMAIN ret
        /\ Len(ret.meal_plan) = ExpectedDays
        /\ \A i \in 1..Len(ret.meal_plan) : ret.meal_plan[i].day = i
        /\ Len(ret.table_format) = Len(ret.meal_plan)
        /\ \A i \in 1..Len(ret.table_format) : ret.table_format[i].day = i

\* 31 days asked for, 30 returned
C6_Witness ==
    /\ PlanReturned
    /\ args.days = 31
    /\ Len(ret.meal_plan) = 30

\* the safe-food set holds a food of one of the meal type's categories
HasEligible(meal_type) ==
    \E i \in 1..Len(safe_foods) :
        safe_foods[i].category \in meal_categories[meal_type]

Populated(meals, meal_type) ==
    /\ meal_type \in DOMAIN meals
    /\ Len(meals[meal_type]) >= 1

\* C7: in every day of a plan, each meal type for which the safe-food set
\* holds a food of its categories holds at least one food, whatever the
\* used-food set holds.
C7_SlotsPopulated ==
    PlanOp =>
        /\ \A i \in 1..Len(meal_plan) : \A k \in 1..Len(meal_types) :
               HasEligible(meal_types[k]) =>
                   Populated(meal_plan[i].meals, meal_types[k])
        /\ pc = "meal" =>
               \A k \in 1..(slot - 1) :
                   HasEligible(meal_types[k]) => Populated(day_meals, meal_types[k])

\* lunch is filled with a food already served at breakfast, every food of
\* its categories being used, while a meal type with no food stays out
C7_Witness ==
    /\ PlanOp
    /\ pc = "meal"
    /\ slot > Len(meal_types)
    /\ Populated(day_meals, "breakfast")
    /\ Populated(day_meals, "lunch")
    /\ \E i \in 1..Len(day_meals["lunch"]) :
           \E j \in 1..Len(day_meals["breakfast"]) :
               day_meals["lunch"][i].id = day_meals["breakfast"][j].id
    /\ "mid_morning_snack" \notin DOMAIN day_meals

\* C8: on an empty filtered food set generate_meal_plan returns the error
\* result with an empty meal_plan and an empty nutrition_summary, and
\* generates no day entry.
C8_EmptySetError ==
    (PlanOp /\ pc # "call"
        /\ FilteredFoods(foods, user, args.region, args.diet_type) = <<>>) =>
        /\ pc = "done"
        /\ DOMAIN ret = {"error", "meal_plan", "nutrition_summary"}
        /\ ret.error = "No suitable foods found for your preferences"
        /\ ret.meal_plan = <<>>
        /\ ret.nutrition_summary = EmptyDict
        /\ meal_plan = <<>>
        /\ day_meals = EmptyDict
        /\ day = 0

\* a table with foods in it, all of them filtered out
C8_Witness ==
    /\ PlanDone
    /\ foods # <<>>
    /\ safe_foods = <<>>
    /\ "error" \in DOMAIN ret

\* how many slots of the day hold the food
Occurrences(meals, id) ==
    Cardinality({ti \in {<<t, i>> : t \in DOMAIN meals, i \in 1..5} :
                    /\ ti[2] <= Len(meals[ti[1]])
                    /\ meals[ti[1]][ti[2]].id = id})

RECURSIVE ExpectedTotal(_, _, _)
\* the nutrient over the table rows i.., each times its occurrences in the day
ExpectedTotal(meals, i, nutrient) ==
    IF i > Len(foods) THEN 0
    ELSE Occurrences(meals, foods[i].id)
             * Get(foods[i].nutritional_info, nutrient, 0)
         + ExpectedTotal(meals, i + 1, nutrient)

\* C9: each of the six daily totals equals the sum, over every food selected
\* in any slot that day, once per slot it is selected in, of the food's stored
\* amount, a missing nutrient counting as 0.
C9_DailyTotals ==
    PlanOp =>
        \A i \in 1..Len(meal_plan) :
            /\ DOMAIN meal_plan[i].daily_nutrition = TotalNutrients
            /\ \A n \in TotalNutrients :
                   meal_plan[i].daily_nutrition[n]
                       = ExpectedTotal(meal_plan[i].meals, 1, n)

\* a day in which one food fills two slots and another food lacks a nutrient
C9_Witness ==
    /\ PlanOp
    /\ \E i \in 1..Len(meal_plan) :
        /\ \E id \in PlacedIds : Occurrences(meal_plan[i].meals, id) >= 2
        /\ \E id \in PlacedIds :
            /\ Occurrences(meal_plan[i].meals, id) >= 1
            /\ "calories" \notin DOMAIN FoodById(id).nutritional_info
        /\ meal_plan[i].daily_nutrition["calories"] > 0

(***************************************************************************)
(* ai_engine/chatbot.py                                                    *)
(***************************************************************************)
Whitespace == {" ", "\t", "\n"}

\* str.split(): the maximal runs of non-whitespace characters, in order
split(s) ==
    LET RECURSIVE Scan(_, _, _)
        Scan(i, word, words) ==
            LET closed == IF word = <<>> THEN words ELSE Append(words, word)
            IN  IF i > Len(s) THEN closed
                ELSE IF s[i] \in Whitespace THEN Scan(i + 1, <<>>, closed)
                ELSE Scan(i + 1, Append(word, s[i]), words)
    IN  Scan(1, <<>>, <<>>)

\* the keyword lists of classify_intent, in the order of its if/elif chain
intent_patterns ==
 <<
    [intent |-> "safety_check", words |->
      << <<"c","a","n"," ","i"," ","e","a","t">>,
         <<"i","s"," ","i","t"," ","s","a","f","e">>,
         <<"s","a","f","e"," ","t","o"," ","e","a","t">>,
         <<"s","h","o","u","l","d"," ","i"," ","a","v","o","i","d">> >>],
    [intent |-> "benefits", words |->
      << <<"b","e","n","e","f","i","t","s">>,
         <<"g","o","o","d"," ","f","o","r">>,
         <<"w","h","y"," ","e","a","t">>,
         <<"a","d","v","a","n","t","a","g","e","s">> >>],
    [intent |-> "nutritional_info", words |->
      << <<"n","u","t","r","i","t","i","o","n">>,
         <<"n","u","t","r","i","e","n","t","s">>,
         <<"v","i","t","a","m","i","n","s">>,
         <<"m","i","n","e","r","a","l","s">>,
         <<"p","r","o","t","e","i","n">>,
         <<"c","a","l","c","i","u","m">>,
         <<"i","r","o","n">> >>],
    [intent |-> "quantity", words |->
      << <<"h","o","w"," ","m","u","c","h">>,
         <<"q","u","a","n","t","i","t","y">>,
         <<"h","o","w"," ","m","a","n","y">>,
         <<"s","e","r","v","i","n","g">> >>],
    [intent |-> "preparation", words |->
      << <<"h","o","w"," ","t","o">>,
         <<"p","r","e","p","a","r","e">>,
         <<"c","o","o","k">>,
         <<"r","e","c","i","p","e">> >>],
    [intent |-> "precautions", words |->
      << <<"p","r","e","c","a","u","t","i","o","n">>,
         <<"w","a","r","n","i","n","g">>,
         <<"a","v","o","i","d">>,
         <<"r","i","s","k">> >>],
    [intent |-> "trimester_specific", words |->
      << <<"t","r","i","m","e","s","t","e","r">>,
         <<"f","i","r","s","t"," ","t","r","i","m","e","s","t","e","r">>,
         <<"s","e","c","o","n","d"," ","t","r","i","m","e","s","t","e","r">>,
         <<"t","h","i","r","d"," ","t","r","i","m","e","s","t","e","r">> >>]
 >>

\* any(word in question_lower for word in words)
AnyWordIn(words, question_lower) ==
    \E i \in 1..Len(words) : IsSubstring(words[i], question_lower)

\* the branches of the chain whose test is true
MatchingBranches(question) ==
    {i \in 1..Len(intent_patterns) :
        AnyWordIn(intent_patterns[i].words, Lower(question))}

\* the chain taken from the bottom: the last branch whose test is true
classify_intent_last_branch(question) ==
    LET matching == MatchingBranches(question)
    IN  IF matching = {} THEN "general"
        ELSE intent_patterns[CHOOSE i \in matching :
                                \A j \in matching : j <= i].intent

classify_intent(question) ==
    LET matching == MatchingBranches(question)
    IN  IF matching = {} THEN "general"
        ELSE intent_patterns[CHOOSE i \in matching :
                                \A j \in matching : i <= j].intent

\* the partial-match loop: some word longer than 3 characters is inside a name
partial_match(words, food) ==
    \E i \in 1..Len(words) :
        /\ Len(words[i]) > 3
        /\ \/ IsSubstring(words[i], Lower(food.name_english))
           \/ /\ food.name_hindi # <<>>
              /\ IsSubstring(words[i], Lower(food.name_hindi))

\* the name tests alone, without the partial-match loop
food_matches_names_only(question_lower, food) ==
    \/ IsSubstring(Lower(food.name_english), question_lower)
    \/ /\ food.name_hindi # <<>>
       /\ IsSubstring(Lower(food.name_hindi), question_lower)

\* one pass of the loop body: does this food get appended
food_matches(question_lower, food) ==
    \/ IsSubstring(Lower(food.name_english), question_lower)
    \/ /\ food.name_hindi # <<>>
       /\ IsSubstring(Lower(food.name_hindi), question_lower)
    \/ partial_match(split(question_lower), food)

extract_food_entities(question, all_foods) ==
    LET question_lower == Lower(question)
        Matches(food) == food_matches(question_lower, food)
    IN  SelectSeq(all_foods, Matches)

\* f"{value}" of a column that may be NULL
Format(s) == IF s = <<>> THEN <<"None">> ELSE s

Newline == <<"\n">>

\* str.strip() of a response: it never starts with whitespace
Strip(response) ==
    LET kept == {i \in 1..Len(response) : response[i] \notin Whitespace}
    IN  IF kept = {} THEN <<>>
        ELSE SubSeq(response, 1, CHOOSE i \in kept : \A j \in kept : j <= i)

\* nutrient.replace('_', ' ').title()
Title(nutrient) ==
    CASE nutrient = "iron"       -> "Iron"
      [] nutrient = "calcium"    -> "Calcium"
      [] nutrient = "protein"    -> "Protein"
      [] nutrient = "calories"   -> "Calories"
      [] nutrient = "folic_acid" -> "Folic Acid"
      [] nutrient = "vitamin_c"  -> "Vitamin C"

\* dict.items(): the keys in one fixed order (the stored JSON's order)
RECURSIVE items(_)
items(d) ==
    IF DOMAIN d = {} THEN <<>>
    ELSE LET k == CHOOSE x \in DOMAIN d : TRUE
         IN  << <<k, d[k]>> >> \o items([x \in DOMAIN d \ {k} |-> d[x]])

_generate_general_response(question, intent, trimester) ==
    LET responses ==
          [safety_check |->
             <<"During your trimester ", ToString(trimester),
               ", it's important to focus on a balanced diet. Could you please specify which food item you'd like to know about?">>,
           benefits |->
             <<"A healthy pregnancy diet includes fruits, vegetables, whole grains, dairy, and proteins. Each food group offers unique benefits for you and your baby.">>,
           nutritional_info |->
             <<"In trimester ", ToString(trimester),
               ", focus on foods rich in iron, calcium, folic acid, and protein. Would you like information about any specific food?">>,
           general |->
             <<"I'm here to help with your pregnancy nutrition questions! You can ask me about specific foods, their safety, benefits, or preparation methods.">>]
    IN  Get(responses, intent, responses["general"])

RECURSIVE NutrientLines(_)
NutrientLines(pairs) ==
    IF pairs = <<>> THEN <<>>
    ELSE LET nutrient == pairs[1][1]
             value    == pairs[1][2]
             line == IF nutrient # "probiotics" /\ nutrient # "antioxidants"
                     THEN <<"- ", Title(nutrient), ": ", ToString(value)>>
                          \o Newline
                     ELSE <<>>
         IN  line \o NutrientLines(Tail(pairs))

_generate_single_food_response(food, intent, trimester) ==
    LET trimester_suit == get_trimester_suitability(food)
        is_safe == Get(trimester_suit, trimester_key(trimester), TRUE)
        tri     == ToString(trimester)
        name    == Lower(food.name_english)
        header  == <<"**">> \o food.name_english \o <<"** (">>
                   \o Format(food.name_hindi) \o <<")">> \o Newline \o Newline
        nutrition == get_nutritional_info(food)
        body ==
          CASE intent = "safety_check" ->
                 IF is_safe
                 THEN <<"(yes) Yes, ">> \o name
                      \o <<" is generally safe during trimester ", tri, ".">>
                      \o Newline \o Newline
                      \o (IF food.precautions # ""
                          THEN <<"**Precautions:** ", food.precautions>>
                               \o Newline \o Newline
                          ELSE <<>>)
                 ELSE <<"(warning) It's recommended to avoid or limit ">>
                      \o name \o <<" during trimester ", tri, ".">>
                      \o Newline \o Newline
                      \o (IF food.precautions # ""
                          THEN <<"**Reason:** ", food.precautions>>
                               \o Newline \o Newline
                          ELSE <<>>)
            [] intent = "benefits" ->
                 IF food.benefits # <<>>
                 THEN <<"**Benefits:**">> \o Newline \o food.benefits
                      \o Newline \o Newline
                 ELSE <<>>
            [] intent = "nutritional_info" ->
                 IF DOMAIN nutrition # {}
                 THEN <<"**Nutritional Information (per 100g):**">> \o Newline
                      \o NutrientLines(items(nutrition)) \o Newline
                 ELSE <<>>
            [] intent = "preparation" ->
                 IF food.preparation_tips # ""
                 THEN <<"**Preparation Tips:**">> \o Newline
                      \o <<food.preparation_tips>> \o Newline \o Newline
                 ELSE <<>>
            [] intent = "precautions" ->
                 IF food.precautions # ""
                 THEN <<"**Precautions:**">> \o Newline
                      \o <<food.precautions>> \o Newline \o Newline
                 ELSE <<>>
            [] OTHER ->
                 (IF food.benefits # <<>>
                  THEN <<"**Benefits:** ">> \o food.benefits
                       \o Newline \o Newline
                  ELSE <<>>)
                 \o (IF is_safe
                     THEN <<"(yes) Safe for trimester ", tri>> \o Newline
                     ELSE <<"(warning) Use caution in trimester ", tri>>
                          \o Newline)
    IN  Strip(header \o body)

MultiFoodLimit == 3
BenefitsPreview == 100
KeyNutrients == 2

RECURSIVE KeyNutrientLines(_)
KeyNutrientLines(pairs) ==
    IF pairs = <<>> THEN <<>>
    ELSE <<"   - ", pairs[1][1], ": ", ToString(pairs[1][2])>> \o Newline
         \o KeyNutrientLines(Tail(pairs))

_generate_multi_food_response(foods_found, intent, trimester) ==
    LET shown == Prefix(foods_found, MultiFoodLimit)
        Entry(i) ==
          LET food == shown[i]
              is_safe == Get(get_trimester_suitability(food),
                             trimester_key(trimester), TRUE)
              nutrition == get_nutritional_info(food)
          IN  <<ToString(i), ". **">> \o food.name_english \o <<"** (">>
              \o Format(food.name_hindi) \o <<")">>
              \o (IF is_safe
                  THEN <<" - (yes) Safe for your trimester">> \o Newline
                  ELSE <<" - (warning) Use caution">> \o Newline)
              \o (IF intent = "benefits" /\ food.benefits # <<>>
                  THEN <<"   ">> \o Prefix(food.benefits, BenefitsPreview)
                       \o <<"...">> \o Newline
                  ELSE IF intent = "nutritional_info" /\ DOMAIN nutrition # {}
                  THEN KeyNutrientLines(Prefix(items(nutrition), KeyNutrients))
                  ELSE <<>>)
              \o Newline
        RECURSIVE Entries(_)
        Entries(i) == IF i > Len(shown) THEN <<>>
                      ELSE Entry(i) \o Entries(i + 1)
        more == IF Len(foods_found) > MultiFoodLimit
                THEN <<"...and ", ToString(Len(foods_found) - MultiFoodLimit),
                       " more. Please ask about a specific food for detailed information.">>
                     \o Newline
                ELSE <<>>
    IN  Strip(<<"I found information about ", ToString(Len(foods_found)),
                " foods:">> \o Newline \o Newline \o Entries(1) \o more)

generate_response(question, intent, foods_found, trimester) ==
    IF foods_found = <<>>
    THEN _generate_general_response(question, intent, trimester)
    ELSE IF Len(foods_found) = 1
    THEN _generate_single_food_response(foods_found[1], intent, trimester)
    ELSE _generate_multi_food_response(foods_found, intent, trimester)

\* _load_models on an instance whose flag is `loaded`, in a process where the
\* transformers and torch packages and their weights are `available` or not;
\* every Exception inside is caught and reported with print
_load_models(loaded, available) ==
    IF loaded THEN [models_loaded |-> TRUE, raised |-> FALSE]
    ELSE IF available THEN [models_loaded |-> TRUE, raised |-> FALSE]
    ELSE [models_loaded |-> FALSE, raised |-> FALSE]

\* the dict answer_question returns
Answer(question, all_foods, trimester, confidence_of) ==
    LET intent      == classify_intent(question)
        foods_found == extract_food_entities(question, all_foods)
    IN  [answer |-> generate_response(question, intent, foods_found, trimester),
         intent |-> intent,
         foods_mentioned |->
             [i \in 1..Len(foods_found) |-> foods_found[i].name_english],
         trimester |-> trimester,
         confidence |-> confidence_of[foods_found # <<>>]]

Raised == [raised |-> TRUE, models_loaded |-> FALSE, value |-> EmptyDict]

\* confidence 'high' whether or not a food was found
answer_question_always_high(loaded, available, question, all_foods, trimester) ==
    [raised |-> FALSE,
     models_loaded |-> _load_models(loaded, available).models_loaded,
     value |-> Answer(question, all_foods, trimester,
                      [b \in BOOLEAN |-> "high"])]

\* an answer that is only produced once the models are loaded
answer_question_needs_models(loaded, available, question, all_foods, trimester) ==
    LET load == _load_models(loaded, available)
    IN  IF ~load.models_loaded THEN Raised
        ELSE [raised |-> FALSE, models_loaded |-> TRUE,
              value |-> Answer(question, all_foods, trimester,
                               [b \in BOOLEAN |->
                                   IF b THEN "high" ELSE "medium"])]

\* answer_question: the outcome (returned or raised), the instance's flag
\* afterwards, and the returned dict
answer_question(loaded, available, question, all_foods, trimester) ==
    LET load == IF ~loaded THEN _load_models(loaded, available)
                ELSE [models_loaded |-> TRUE, raised |-> FALSE]
    IN  [raised |-> FALSE,
         models_loaded |-> load.models_loaded,
         value |-> Answer(question, all_foods, trimester,
                          [b \in BOOLEAN |-> IF b THEN "high" ELSE "medium"])]

(***************************************************************************)
(* SpecChat: the chatbot's classify_intent, extract_food_entities and      *)
(* answer_question on bounded questions and catalogs                       *)
(***************************************************************************)
Palak       == <<"P","a","l","a","k">>
Papita      == <<"P","a","p","i","t","a">>
PalakPaneer == <<"P","a","l","a","k"," ","P","a","n","e","e","r">>

\* a food_items row with the two text columns the chatbot also reads
ChatFood(food, preparation_tips, benefits) ==
    food @@ [preparation_tips |-> preparation_tips, benefits |-> benefits]

ChatPantry ==
  <<ChatFood(FoodItem(1, Milk, Doodh, "dairy",
                      [calcium |-> 125, protein |-> 3], AllTrue, "north",
                      "Always boil before consumption."),
             "Drink warm.", <<"R","i","c","h"," ","i","n"," ","c","a","l","c","i","u","m">>),
    ChatFood(FoodItem(2, Spinach, Palak, "vegetables",
                      [iron |-> 3, folic_acid |-> 194, calcium |-> 99],
                      AllTrue, "north", ""),
             "", <<"R","i","c","h"," ","i","n"," ","i","r","o","n"," ","a","n","d"," ","f","o","l","i","c"," ","a","c","i","d">>),
    ChatFood(FoodItem(3, Papaya, Papita, "fruits", [vitamin_c |-> 60],
                      [trimester_1 |-> FALSE, trimester_2 |-> FALSE,
                       trimester_3 |-> TRUE], "south",
                      "Avoid unripe papaya."),
             "", <<>>),
    ChatFood(FoodItem(4, Rice, <<>>, "grains", EmptyDict, EmptyDict, "", ""),
             "Wash before cooking.", <<>>),
    ChatFood(FoodItem(5, PalakPaneer, <<>>, "vegetables",
                      [protein |-> 11], [all_trimesters |-> TRUE], "north",
                      ""),
             "", <<"P","r","o","t","e","i","n"," ","w","i","t","h"," ","g","r","e","e","n","s">>)>>

MaxChatFoods == 2

\* the rows with the given ids, in primary-key order
ChatRows(ids) ==
    LET Kept(food) == food.id \in ids
    IN  SelectSeq(ChatPantry, Kept)

ChatTables ==
    {ChatRows(ids) : ids \in {s \in SUBSET (1..Len(ChatPantry)) :
                                Cardinality(s) <= MaxChatFoods}}
    \cup {ChatPantry}

Phrases ==
    { <<"C","a","n"," ","I"," ","e","a","t">>,
      <<"s","h","o","u","l","d"," ","i"," ","a","v","o","i","d">>,
      <<"b","e","n","e","f","i","t","s"," ","o","f">>,
      <<"i","r","o","n"," ","i","n">>,
      <<"h","o","w"," ","m","u","c","h">>,
      <<"h","o","w"," ","t","o"," ","c","o","o","k">>,
      <<"a","v","o","i","d">>,
      <<"t","r","i","m","e","s","t","e","r">>,
      <<"m","i","l","k">>,
      <<"D","o","o","d","h">>,
      <<"p","a","l","a","k">>,
      <<"p","a","n","e">>,
      <<"r","i","c">> }

PapayaQuestion ==
    <<"C","a","n"," ","I"," ","e","a","t"," ","p","a","p","a","y","a"," ","d","u","r","i","n","g">>
    \o <<" ","f","i","r","s","t"," ","t","r","i","m","e","s","t","e","r","?">>

MilkQuestion == <<"I","s"," ","m","i","l","k"," ","s","a","f","e","?">>

Questions ==
    Phrases \cup {a \o <<" ">> \o b : a \in Phrases, b \in Phrases}
            \cup {PapayaQuestion, MilkQuestion}

InitChat ==
    /\ op \in {"classify_intent", "extract_food_entities", "answer_question"}
    /\ \/ /\ op = "classify_intent"
          /\ args \in [question : Questions]
          /\ foods = <<>>
          /\ models_loaded = FALSE
       \/ /\ op = "extract_food_entities"
          /\ args \in [question : Questions]
          /\ foods \in ChatTables
          /\ models_loaded = FALSE
       \/ /\ op = "answer_question"
          /\ args \in [question : Questions, trimester : 1..3,
                       available : BOOLEAN]
          /\ foods \in ChatTables
          /\ models_loaded \in {FALSE, args.available}
    /\ pc = "call"
    /\ ret = None
    /\ user = None
    /\ interactions = <<>>
    /\ recommendations = <<>>
    /\ idleSingleton
    /\ idlePlan

ClassifyIntent ==
    /\ op = "classify_intent"
    /\ pc = "call"
    /\ ret' = classify_intent(args.question)
    /\ pc' = "done"
    /\ UNCHANGED <<appVars, foods, user, interactions, op, args, planVars>>

ExtractFoodEntities ==
    /\ op = "extract_food_entities"
    /\ pc = "call"
    /\ ret' = extract_food_entities(args.question, foods)
    /\ pc' = "done"
    /\ UNCHANGED <<appVars, foods, user, interactions, op, args, planVars>>

AnswerQuestion ==
    /\ op = "answer_question"
    /\ pc = "call"
    /\ LET result == answer_question(models_loaded, args.available,
                                     args.question, foods, args.trimester)
       IN  /\ models_loaded' = result.models_loaded
           /\ ret' = [raised |-> result.raised, value |-> result.value]
    /\ pc' = "done"
    /\ UNCHANGED <<recommendations, singletonVars, foods, user, interactions,
                   op, args, planVars>>

NextChat == ClassifyIntent \/ ExtractFoodEntities \/ AnswerQuestion

SpecChat == InitChat /\ [][NextChat]_vars

(***************************************************************************)
(* Properties of the chatbot                                               *)
(***************************************************************************)
IntentOrder ==
    <<"safety_check", "benefits", "nutritional_info", "quantity",
      "preparation", "precautions", "trimester_specific">>

KeywordsOf(category) ==
    LET i == CHOOSE k \in 1..Len(intent_patterns) :
                 intent_patterns[k].intent = category
    IN  {intent_patterns[i].words[n] : n \in 1..Len(intent_patterns[i].words)}

CategoryMatches(category, question) ==
    \E word \in KeywordsOf(category) : IsSubstring(word, Lower(question))

\* C12: classify_intent returns the first category, in the order safety_check,
\* benefits, nutritional_info, quantity, preparation, precautions,
\* trimester_specific, one of whose keywords is a substring of the lowercased
\* question, and general when none matches; the papaya question, which holds
\* a safety keyword and the later "trimester" keyword, is safety_check.
C12_FirstCategoryWins ==
    (op = "classify_intent" /\ pc = "done") =>
        /\ (\A k \in 1..Len(IntentOrder) :
                ~CategoryMatches(IntentOrder[k], args.question))
           => ret = "general"
        /\ \A k \in 1..Len(IntentOrder) :
              ( /\ CategoryMatches(IntentOrder[k], args.question)
                /\ \A j \in 1..(k - 1) :
                      ~CategoryMatches(IntentOrder[j], args.question) )
              => ret = IntentOrder[k]
        /\ args.question = PapayaQuestion => ret = "safety_check"

\* the papaya question: a safety keyword and a trimester keyword both occur
C12_Witness ==
    /\ op = "classify_intent"
    /\ pc = "done"
    /\ args.question = PapayaQuestion
    /\ CategoryMatches("safety_check", args.question)
    /\ CategoryMatches("trimester_specific", args.question)
    /\ ret = "safety_check"

HasLocalName(food) == food.name_hindi # <<>>

\* the matching rule as stated: either name inside the question, or a question
\* word longer than 3 characters inside either name
NameOrWordMatches(food, question) ==
    LET q     == Lower(question)
        words == split(q)
    IN  \/ IsSubstring(Lower(food.name_english), q)
        \/ HasLocalName(food) /\ IsSubstring(Lower(food.name_hindi), q)
        \/ \E i \in 1..Len(words) :
              /\ Len(words[i]) > 3
              /\ \/ IsSubstring(words[i], Lower(food.name_english))
                 \/ HasLocalName(food)
                    /\ IsSubstring(words[i], Lower(food.name_hindi))

\* C13: extract_food_entities returns a catalog food exactly when its
\* lowercased English name is a substring of the lowercased question, or its
\* localized name is, or a whitespace-separated question word longer than 3
\* characters is a substring of either name; each matching food appears once,
\* in catalog order; "Is milk safe?" against a catalog holding Milk/Doodh
\* returns the Milk record.
C13_ExtractMatchesInOrder ==
    (op = "extract_food_entities" /\ pc = "done") =>
        /\ \A i \in 1..Len(foods) :
              NameOrWordMatches(foods[i], args.question)
              <=> \E j \in 1..Len(ret) : ret[j] = foods[i]
        /\ \A j \in 1..Len(ret) : \E i \in 1..Len(foods) : ret[j] = foods[i]
        /\ \A j, k \in 1..Len(ret) : j < k => ret[j].id < ret[k].id
        /\ (args.question = MilkQuestion /\ 1 \in {foods[i].id : i \in 1..Len(foods)})
           => \E j \in 1..Len(ret) : ret[j] = ChatPantry[1]

\* "Is milk safe?" against the whole table: Milk is returned and nothing else
C13_Witness ==
    /\ op = "extract_food_entities"
    /\ pc = "done"
    /\ args.question = MilkQuestion
    /\ foods = ChatPantry
    /\ ret = <<ChatPantry[1]>>

\* C14: answer_question returns confidence "high" exactly when at least one
\* food was extracted from the question and "medium" otherwise; the returned
\* intent is classify_intent(question) and foods_mentioned lists exactly the
\* extracted foods' English names.
C14_ConfidenceFollowsFoods ==
    (op = "answer_question" /\ pc = "done") =>
        LET found == extract_food_entities(args.question, foods)
        IN  /\ ~ret.raised
            /\ ret.value.confidence =
                  (IF Len(found) >= 1 THEN "high" ELSE "medium")
            /\ ret.value.intent = classify_intent(args.question)
            /\ ret.value.foods_mentioned =
                  [i \in 1..Len(found) |-> found[i].name_english]

\* a question naming no food of the catalog: medium confidence, no names
C14_Witness ==
    /\ op = "answer_question"
    /\ pc = "done"
    /\ foods # <<>>
    /\ ret.value.foods_mentioned = <<>>
    /\ ret.value.confidence = "medium"

Digits == <<"0","1","2","3","4","5","6","7","8","9">>

\* str(n) for n >= 0
RECURSIVE IntToStr(_)
IntToStr(n) ==
    IF n < 10 THEN <<Digits[n + 1]>>
    ELSE IntToStr(n \div 10) \o <<Digits[(n % 10) + 1]>>

\* json.dumps of a list of ints: "[1, 12, 3]"
json_dumps(items_list) ==
    LET RECURSIVE Body(_)
        Body(i) ==
            IF i > Len(items_list) THEN <<>>
            ELSE (IF i > 1 THEN <<",", " ">> ELSE <<>>)
                 \o IntToStr(items_list[i]) \o Body(i + 1)
    IN  <<"[">> \o Body(1) \o <<"]">>

IsDigit(c) == \E d \in 1..10 : Digits[d] = c

DigitValue(c) == (CHOOSE d \in 1..10 : Digits[d] = c) - 1

\* json.loads of such a text
json_loads(text) ==
    LET RECURSIVE Scan(_, _, _, _)
        Scan(i, number, open, out) ==
            IF i > Len(text) THEN out
            ELSE IF IsDigit(text[i])
            THEN Scan(i + 1, number * 10 + DigitValue(text[i]), TRUE, out)
            ELSE IF open
            THEN Scan(i + 1, 0, FALSE, Append(out, number))
            ELSE Scan(i + 1, 0, FALSE, out)
    IN  Scan(1, 0, FALSE, <<>>)

\* a row of the recommendations table (created_at, a timestamp, is left out)
Recommendation(id, user_id, food_items, trimester, reason) ==
    [id |-> id, user_id |-> user_id, food_items |-> food_items,
     trimester |-> trimester, reason |-> reason]

get_food_items(recommendation) ==
    IF recommendation.food_items # <<>>
    THEN json_loads(recommendation.food_items)
    ELSE <<>>

set_food_items(recommendation, items_list) ==
    [recommendation EXCEPT !.food_items = json_dumps(items_list)]

\* FoodItem.to_dict(), over the columns of the model
to_dict(food) ==
    [id |-> food.id, name_english |-> food.name_english,
     name_hindi |-> food.name_hindi, category |-> food.category,
     nutritional_info |-> get_nutritional_info(food),
     trimester_suitability |-> get_trimester_suitability(food),
     regional_origin |-> food.regional_origin,
     precautions |-> food.precautions]

(***************************************************************************)
(* ai_engine/recommender.py: saving, and the meal-specific variant         *)
(***************************************************************************)
\* the ids are stored in ascending order, not in ranking order
save_recommendation_sorted_ids(table, u, food_items, reason) ==
    LET Less(a, b) == a < b
    IN  Append(table,
               set_food_items(Recommendation(Len(table) + 1, u.id, <<>>,
                                             u.current_trimester, reason),
                              SortSeq(food_items, Less)))

\* the user's latest row is rewritten when there is one
save_recommendation_rewrites(table, u, food_items, reason) ==
    IF table = <<>>
    THEN <<set_food_items(Recommendation(1, u.id, <<>>, u.current_trimester,
                                         reason), food_items)>>
    ELSE [table EXCEPT ![Len(table)] = set_food_items(@, food_items)]

\* session.add and commit: the table with the new row, whose id is the next
\* primary key
save_recommendation(table, u, food_items, reason) ==
    Append(table,
           set_food_items(Recommendation(Len(table) + 1, u.id, <<>>,
                                         u.current_trimester, reason),
                          food_items))

DefaultMaxItems == 10
MealSpecificLimit == 5

meal_specific_categories ==
    [breakfast |-> {"grains", "dairy", "fruits"},
     lunch     |-> {"grains", "vegetables", "proteins", "lentils"},
     dinner    |-> {"grains", "vegetables", "lentils"},
     snacks    |-> {"fruits", "dry_fruits", "traditional"}]

\* the ranking of the whole table cut to five, with no category filter
get_meal_specific_recommendations_unfiltered(all_foods, log, u, meal_type) ==
    Prefix(get_recommendations(all_foods, log, u, DefaultMaxItems),
           MealSpecificLimit)

\* the whole table is ranked with the default max_items, the result is
\* filtered to the meal's categories and cut to five (the table query
\* filtered by category is made but its result is not used)
get_meal_specific_recommendations(all_foods, log, u, meal_type) ==
    LET categories == Get(meal_specific_categories, meal_type, {})
        all_recommendations ==
            get_recommendations(all_foods, log, u, DefaultMaxItems)
        InMeal(rec) == rec.food.category \in categories \/ categories = {}
    IN  Prefix(SelectSeq(all_recommendations, InMeal), MealSpecificLimit)

(***************************************************************************)
(* routes/recommendations.py: GET /api/recommendations                     *)
(***************************************************************************)
ResponseEntry(rec) ==
    [food |-> to_dict(rec.food), score |-> rec.score,
     warnings |-> rec.warnings, nutrition_score |-> rec.nutrition_score,
     trimester_score |-> rec.trimester_score,
     preference_score |-> rec.preference_score]

\* the handler: the table afterwards and the JSON body returned
recommendations_route(table, all_foods, log, u, meal_type, max_items) ==
    LET recs == IF meal_type # None
                THEN get_meal_specific_recommendations(all_foods, log, u,
                                                       meal_type)
                ELSE get_recommendations(all_foods, log, u, max_items)
        food_ids == [i \in 1..Len(recs) |-> recs[i].food.id]
        reason == <<"Personalized recommendations for trimester ",
                    ToString(u.current_trimester)>>
        saved == IF food_ids # <<>>
                 THEN save_recommendation(table, u, food_ids, reason)
                 ELSE table
    IN  [table |-> saved,
         response |->
            [recommendation_id |->
                 IF food_ids # <<>> THEN <<saved[Len(saved)].id>> ELSE <<>>,
             trimester |-> u.current_trimester,
             recommendations |->
                 [i \in 1..Len(recs) |-> ResponseEntry(recs[i])]]]

(***************************************************************************)
(* SpecRoute: a logged-in user sends GET /api/recommendations requests     *)
(***************************************************************************)
MaxRequests == 2

RouteTables == {<<>>, Rows({2}), Rows({2, 3, 5}), Pantry}

RouteUsers ==
    { User(1, t, "vegetarian", h) :
        t \in {1, 3},
        h \in {EmptyDict, [allergies |-> << <<"m","i","l","k">> >>]} }

\* the meal_type query parameter: absent, a slot type, or any other text
RouteMealTypes ==
    {None, "breakfast", "lunch", "dinner", "snacks", "brunch"}

RouteMaxItems == {0, DefaultMaxItems}

InitRoute ==
    /\ op = "recommendations_route"
    /\ foods \in RouteTables
    /\ user \in RouteUsers
    /\ interactions \in RankLogs
    /\ args = [served |-> 0, meal_type |-> None, max_items |-> 0]
    /\ pc = "idle"
    /\ ret = None
    /\ recommendations = <<>>
    /\ models_loaded = FALSE
    /\ idleSingleton
    /\ idlePlan

RecommendationsRoute ==
    /\ op = "recommendations_route"
    /\ args.served < MaxRequests
    /\ \E meal_type \in RouteMealTypes, max_items \in RouteMaxItems :
        LET out == recommendations_route(recommendations, foods, interactions,
                                         user, meal_type, max_items)
        IN  /\ recommendations' = out.table
            /\ ret' = out.response
            /\ args' = [served |-> args.served + 1, meal_type |-> meal_type,
                        max_items |-> max_items]
    /\ pc' = "done"
    /\ UNCHANGED <<models_loaded, singletonVars, foods, user, interactions,
                   op, planVars>>

NextRoute == RecommendationsRoute

SpecRoute == InitRoute /\ [][NextRoute]_vars

(***************************************************************************)
(* Properties of the recommendations route                                 *)
(***************************************************************************)
RouteDone == op = "recommendations_route" /\ pc = "done"

\* the catalog row with the given id
CatalogRow(catalog, id) ==
    catalog[CHOOSE i \in 1..Len(catalog) : catalog[i].id = id]

\* C16: the food-id list stored in a Recommendation, read back and expanded
\* against the catalog, gives the same foods in the same order as the
\* candidate list returned by the request that created it.
C16_StoredIdsRoundTrip ==
    (RouteDone /\ ret.recommendation_id # <<>>) =>
        LET stored == recommendations[ret.recommendation_id[1]]
            ids    == get_food_items(stored)
        IN  /\ stored.id = ret.recommendation_id[1]
            /\ Len(ids) = Len(ret.recommendations)
            /\ \A i \in 1..Len(ids) :
                  /\ \E k \in 1..Len(foods) : foods[k].id = ids[i]
                  /\ to_dict(CatalogRow(foods, ids[i]))
                        = ret.recommendations[i].food

\* a stored list that is not in ascending id order and holds a two-digit id
C16_Witness ==
    /\ RouteDone
    /\ ret.recommendation_id # <<>>
    /\ LET ids == get_food_items(recommendations[ret.recommendation_id[1]])
       IN  /\ Len(ids) >= 3
           /\ \E i \in 1..(Len(ids) - 1) : ids[i] > ids[i + 1]
           /\ \E i \in 1..Len(ids) : ids[i] >= 10

SlotTypes == {"breakfast", "lunch", "dinner", "snacks"}

SlotAllowList ==
    [breakfast |-> {"grains", "dairy", "fruits"},
     lunch     |-> {"grains", "vegetables", "proteins", "lentils"},
     dinner    |-> {"grains", "vegetables", "lentils"},
     snacks    |-> {"fruits", "dry_fruits", "traditional"}]

\* the catalog restricted to a slot's allowed categories
Restricted(catalog, slot_type) ==
    LET Allowed(food) == food.category \in SlotAllowList[slot_type]
    IN  SelectSeq(catalog, Allowed)

\* C18: for each slot type the meal-specific variant returns the candidates
\* that get_recommendations returns on the catalog restricted to the slot's
\* allowed categories (the filter applied before scoring, pooling and
\* diversity selection).
C18_Original ==
    (RouteDone /\ args.meal_type \in SlotTypes) =>
        LET ranked == get_recommendations(Restricted(foods, args.meal_type),
                                          interactions, user, DefaultMaxItems)
        IN  ret.recommendations
               = [i \in 1..Len(ranked) |-> ResponseEntry(ranked[i])]

\* C19: every food returned by the meal-specific variant for a slot type has
\* a category in that slot's allow-list.
C19_SlotCategoriesOnly ==
    (RouteDone /\ args.meal_type \in SlotTypes) =>
        \A i \in 1..Len(ret.recommendations) :
            ret.recommendations[i].food.category
                \in SlotAllowList[args.meal_type]

\* a lunch request on the whole table: candidates are returned although the
\* whole-table ranking also holds foods of other categories
C19_Witness ==
    /\ RouteDone
    /\ args.meal_type = "lunch"
    /\ foods = Pantry
    /\ Len(ret.recommendations) >= 2
    /\ LET whole == get_recommendations(foods, interactions, user,
                                        DefaultMaxItems)
       IN  \E i \in 1..Len(whole) :
              whole[i].food.category \notin SlotAllowList["lunch"]

(***************************************************************************)
(* ai_engine/nutritional_analyzer.py: get_complementary_foods              *)
(***************************************************************************)
ComplementLimit == 5

\* every food of another category, without the cut to five
get_complementary_foods_uncut(food_item, all_foods) ==
    LET Other(other_food) ==
            /\ other_food.id # food_item.id
            /\ other_food.category # food_item.category
    IN  SelectSeq(all_foods, Other)

get_complementary_foods(food_item, all_foods) ==
    LET Other(other_food) ==
            /\ other_food.id # food_item.id
            /\ other_food.category # food_item.category
    IN  Prefix(SelectSeq(all_foods, Other), ComplementLimit)

(***************************************************************************)
(* SpecComplement: get_complementary_foods on bounded catalogs             *)
(***************************************************************************)
MaxComplement == 8

ComplementTables ==
    {Rows(ids) : ids \in SUBSET (1..MaxComplement)}

InitComplement ==
    /\ op = "get_complementary_foods"
    /\ foods \in ComplementTables
    /\ args \in [food_item : {Pantry[i] : i \in 1..MaxComplement}]
    /\ pc = "call"
    /\ ret = None
    /\ user = None
    /\ interactions = <<>>
    /\ idlePlan
    /\ idleApp

GetComplementaryFoods ==
    /\ op = "get_complementary_foods"
    /\ pc = "call"
    /\ ret' = get_complementary_foods(args.food_item, foods)
    /\ pc' = "done"
    /\ UNCHANGED <<appVars, foods, user, interactions, op, args, planVars>>

NextComplement == GetComplementaryFoods

SpecComplement == InitComplement /\ [][NextComplement]_vars

\* the catalog positions holding another food of another category
ComplementPositions ==
    {i \in 1..Len(foods) :
        /\ foods[i] # args.food_item
        /\ foods[i].category # args.food_item.category}

\* the n-th such position in catalog order
NthComplement(n) ==
    CHOOSE i \in ComplementPositions :
        Cardinality({e \in ComplementPositions : e < i}) = n - 1

\* C20: get_complementary_foods returns at most 5 foods, each different from
\* the given food and of a different category, and they are exactly the first
\* (up to five) such foods in catalog order.
C20_FirstFiveOtherCategory ==
    (op = "get_complementary_foods" /\ pc = "done") =>
        /\ Len(ret) <= 5
        /\ Len(ret) = IF Cardinality(ComplementPositions) < 5
                      THEN Cardinality(ComplementPositions) ELSE 5
        /\ \A n \in 1..Len(ret) :
              /\ ret[n] # args.food_item
              /\ ret[n].category # args.food_item.category
              /\ ret[n] = foods[NthComplement(n)]

\* seven foods of other categories follow the given food in the catalog: the
\* first five of them come back
C20_Witness ==
    /\ op = "get_complementary_foods"
    /\ pc = "done"
    /\ args.food_item = Pantry[1]
    /\ foods = Rows(1..8)
    /\ Len(ret) = 5
    /\ ret[5].id = 6

(***************************************************************************)
(* Properties of the used-food set and of slot selection                   *)
(***************************************************************************)
\* the ids selected for slot k of day entry d of a plan
SelectedAt(plan, d, k) ==
    LET entries == Get(plan[d].meals, meal_types[k], <<>>)
    IN  {entries[i].id : i \in 1..Len(entries)}

\* the ids selected from day `from` on, in the slots before slot k of day d
UsedBefore(plan, from, d, k) ==
    UNION { SelectedAt(plan, e, j) :
              <<e, j>> \in { x \in (from..d) \X (1..Len(meal_types)) :
                               x[1] < d \/ x[2] < k } }

\* the safe foods of the categories slot k may draw from
SlotFoodIds(k) ==
    {safe_foods[i].id : i \in { n \in 1..Len(safe_foods) :
        safe_foods[n].category \in meal_categories[meal_types[k]] }}

\* a food selected again at slot k of day d, counting from day `from`, only
\* when every food of the slot's categories was selected since then
RepeatJustified(plan, from, d, k) ==
    (SelectedAt(plan, d, k) \cap UsedBefore(plan, from, d, k) # {})
        => SlotFoodIds(k) \subseteq UsedBefore(plan, from, d, k)

\* the day the used set was last cleared on or before day d (day 1: created)
WindowStart(d) == IF d < reset_interval THEN 1 ELSE d - (d % reset_interval)

\* the used set is cleared at the head of a day divisible by 3 and never
\* loses an id at any other step
ClearedOnlyOnResetDays ==
    PlanOp =>
        IF pc = "day" /\ pc' = "meal" /\ day % reset_interval = 0
        THEN used_foods' = {}
        ELSE used_foods \subseteq used_foods'

\* the claim as stated, over every stretch of three consecutive days
C21_Original ==
    (PlanDone /\ "error" \notin DOMAIN ret) =>
        \A s \in 1..Len(ret.meal_plan) :
        \A d \in s..(s + 2) :
            d <= Len(ret.meal_plan) =>
                \A k \in 1..Len(meal_types) :
                    RepeatJustified(ret.meal_plan, s, d, k)

\* C21: between two clearings of the used set (days 1-2, 3-5, 6-8, ...), a food
\* selected in one slot is selected again in a later slot only if, at that
\* later slot, every safe food in the slot's allowed categories had already
\* been used since the last clearing; the used-food set is cleared exactly at
\* the start of each day whose number is divisible by 3 and at no other time.
C21_RepeatOnlyWhenExhausted ==
    /\ [](PlanOp =>
            \A d \in 1..Len(meal_plan) : \A k \in 1..Len(meal_types) :
                RepeatJustified(meal_plan, WindowStart(d), d, k))
    /\ [][ClearedOnlyOnResetDays]_vars

\* a three-day plan whose second day repeats a food the first day used, and
\* whose third day, after the clearing, draws two unused foods for a snack
C21_Witness ==
    /\ PlanDone
    /\ "error" \notin DOMAIN ret
    /\ Len(ret.meal_plan) = 3
    /\ Cardinality(SlotFoodIds(2)) = 3
    /\ SelectedAt(ret.meal_plan, 2, 2) \cap SelectedAt(ret.meal_plan, 1, 2) # {}
    /\ SelectedAt(ret.meal_plan, 3, 4) \cap UsedBefore(ret.meal_plan, 3, 3, 4)
          # {}

\* a step of the meal-type loop
SlotStep == PlanOp /\ pc = "meal" /\ slot <= Len(meal_types) /\ slot' = slot + 1

\* the positions of the safe foods slot k may draw from
AllowedAt(k) ==
    {n \in 1..Len(safe_foods) :
        safe_foods[n].category \in meal_categories[meal_types[k]]}

\* C22: at every slot selection, if at least one safe food in the slot's
\* allowed categories is not in the used set, every food selected for the
\* slot was outside the used set when selected; only when no such food exists
\* are used foods of the allowed categories selected; every selected food has
\* a category in the slot's allowed list and its id is in the used set once
\* the slot is filled.
C22_UnusedFirst ==
    [][SlotStep =>
        LET t        == meal_types[slot]
            entries  == Get(day_meals', t, <<>>)
            selected == {entries[i].id : i \in 1..Len(entries)}
            unused   == {safe_foods[n].id : n \in AllowedAt(slot)}
                            \ used_foods
        IN  /\ unused # {} => selected \subseteq unused
            /\ selected \cap used_foods # {} => unused = {}
            /\ \A i \in 1..Len(entries) :
                  /\ entries[i].category \in meal_categories[t]
                  /\ \E n \in AllowedAt(slot) : safe_foods[n].id = entries[i].id
            /\ selected \subseteq used_foods']_vars

\* a slot just filled with a food that an earlier slot of the same day holds
C22_Witness ==
    /\ PlanOp
    /\ pc = "meal"
    /\ slot > 2
    /\ meal_types[slot - 1] \in DOMAIN day_meals
    /\ \E j \in 1..(slot - 2) :
          /\ meal_types[j] \in DOMAIN day_meals
          /\ \E a \in 1..Len(day_meals[meal_types[j]]),
                b \in 1..Len(day_meals[meal_types[slot - 1]]) :
                day_meals[meal_types[j]][a].id
                    = day_meals[meal_types[slot - 1]][b].id

SnackSlots == {"mid_morning_snack", "evening_snack"}

\* the candidates eligible at a slot: the unused safe foods of its
\* categories, or all of them when none is unused
EligibleAt(k) ==
    LET unused == {n \in AllowedAt(k) : safe_foods[n].id \notin used_foods}
    IN  IF unused # {} THEN unused ELSE AllowedAt(k)

ScoreAt(n) == calculate_nutritional_score(safe_foods[n], user.current_trimester)

\* fewer than m eligible candidates score strictly higher
AmongTop(n, k, m) ==
    Cardinality({e \in EligibleAt(k) : RLt(ScoreAt(n), ScoreAt(e))}) < m

CategoryRank(pool, i) ==
    Cardinality({j \in 1..i : pool[j].food.category = pool[i].food.category})

\* the pool entries the capped walk admits when it is not cut short
CappedPart(pool, cap) ==
    LET at == {i \in 1..Len(pool) : CategoryRank(pool, i) <= cap}
        RECURSIVE Take(_)
        Take(i) == IF i > Len(pool) THEN <<>>
                   ELSE IF i \in at THEN <<pool[i]>> \o Take(i + 1)
                   ELSE Take(i + 1)
    IN  Take(1)

\* the capped part, then the pool entries it left out, in pool order
CappedThenRest(pool, cap, max_items) ==
    LET capped == CappedPart(pool, cap)
    IN  IF Len(capped) >= max_items THEN Prefix(capped, max_items)
        ELSE Prefix(capped \o SelectSeq(pool, LAMBDA x : ~InSeq(x, capped)),
                    max_items)

\* C24: the output of rank is the capped walk over the top 2 x maxItems
\* candidates followed, only if fewer than maxItems were admitted, by the
\* not-yet-selected pool candidates in score order, cut at maxItems; no food
\* appears twice in the output, and the output has min(maxItems, number of
\* safe diet-compatible foods) entries.
C24_CappedWalkThenFill ==
    RankDone =>
        LET eligible == Cardinality({i \in 1..Len(foods) :
                /\ check_safety(foods[i], get_health_conditions(user)).is_safe
                /\ _matches_dietary_preference(foods[i],
                                               user.dietary_preferences)})
        IN  /\ ret = CappedThenRest(RankPool, RankCap, args.max_items)
            /\ \A i, j \in 1..Len(ret) :
                  i # j => ret[i].food.id # ret[j].food.id
            /\ Len(ret) = IF args.max_items < eligible THEN args.max_items
                          ELSE eligible

\* the capped walk admitted fewer than max_items and the second pass filled
\* the output up to max_items with a food the cap had kept out
C24_Witness ==
    /\ RankDone
    /\ PoolExhausted
    /\ Len(ret) = args.max_items
    /\ \E i \in 1..Len(ret) :
          CategoryCount(SubSeq(ret, 1, i), ret[i].food.category) > RankCap

(***************************************************************************)
(* Python float arithmetic of the preference score                         *)
(*                                                                         *)
(* A Python float is an IEEE-754 binary64.  Every value the loop of        *)
(* _get_user_preference_score produces is a whole multiple of 2^-59, so a  *)
(* float is held as a sign and a magnitude counted in units of 2^-59, the  *)
(* magnitude in three limbs of 20 bits, least significant first.  `+=`     *)
(* adds exactly and rounds to 53 significant bits, ties to even.           *)
(***************************************************************************)
RECURSIVE Pow2(_)
Pow2(n) == IF n = 0 THEN 1 ELSE 2 * Pow2(n - 1)

\* one limb holds 20 bits
Limb == Pow2(20)

Mag(l0, l1, l2) == <<l0, l1, l2>>

Float(neg, m) == [neg |-> neg, m |-> m]

MagZero == Mag(0, 0, 0)

\* the literals 0.5, 1.0, 0.1, 0.2, 0.05 and 0.01 as binary64 values
FHalf      == Float(FALSE, Mag(0, 0, 262144))
FOne       == Float(FALSE, Mag(0, 0, 524288))
FZero      == Float(FALSE, MagZero)
FTenth     == Float(FALSE, Mag(838864, 838860, 52428))
FFifth     == Float(FALSE, Mag(629152, 629145, 104857))
FTwentieth == Float(FALSE, Mag(419432, 419430, 26214))
FHundredth == Float(FALSE, Mag(922747, 922746, 5242))

MagCarry(l0, l1, l2) ==
    LET c0 == l0 \div Limb
        s1 == l1 + c0
        c1 == s1 \div Limb
    IN  Mag(l0 % Limb, s1 % Limb, l2 + c1)

MagAdd(a, b) == MagCarry(a[1] + b[1], a[2] + b[2], a[3] + b[3])

MagLess(a, b) ==
    \/ a[3] < b[3]
    \/ a[3] = b[3] /\ a[2] < b[2]
    \/ a[3] = b[3] /\ a[2] = b[2] /\ a[1] < b[1]

\* a - b for a >= b
MagSub(a, b) ==
    LET b0 == IF a[1] < b[1] THEN 1 ELSE 0
        d0 == a[1] + b0 * Limb - b[1]
        b1 == IF a[2] - b0 < b[2] THEN 1 ELSE 0
        d1 == a[2] - b0 + b1 * Limb - b[2]
    IN  Mag(d0, d1, a[3] - b1 - b[3])

RECURSIVE Bits(_)
Bits(x) == IF x = 0 THEN 0 ELSE 1 + Bits(x \div 2)

BitLength(a) ==
    IF a[3] > 0 THEN 40 + Bits(a[3])
    ELSE IF a[2] > 0 THEN 20 + Bits(a[2])
    ELSE Bits(a[1])

\* round to nearest, ties to even, to 53 significant bits
RoundMag(a) ==
    LET q == BitLength(a) - 53
    IN  IF q <= 0 THEN a
        ELSE LET p    == Pow2(q)
                 r    == a[1] % p
                 down == Mag(a[1] - r, a[2], a[3])
                 odd  == (a[1] \div p) % 2 = 1
                 up   == 2 * r > p \/ (2 * r = p /\ odd)
             IN  IF up THEN MagAdd(down, Mag(p, 0, 0)) ELSE down

\* x + y in binary64
FAdd(x, y) ==
    IF x.neg = y.neg THEN Float(x.neg, RoundMag(MagAdd(x.m, y.m)))
    ELSE IF x.m = y.m THEN FZero
    ELSE IF MagLess(x.m, y.m) THEN Float(y.neg, RoundMag(MagSub(y.m, x.m)))
    ELSE Float(x.neg, RoundMag(MagSub(x.m, y.m)))

FNeg(x) == IF x.m = MagZero THEN x ELSE Float(~x.neg, x.m)

FLt(x, y) ==
    IF x.neg /\ ~y.neg THEN TRUE
    ELSE IF ~x.neg /\ y.neg THEN FALSE
    ELSE IF x.neg THEN MagLess(y.m, x.m)
    ELSE MagLess(x.m, y.m)

FLe(x, y) == ~FLt(y, x)

FMin(x, y) == IF FLt(y, x) THEN y ELSE x
FMax(x, y) == IF FLt(x, y) THEN y ELSE x

\* the if/elif chain of the loop body
float_step(score, interaction_type) ==
    CASE interaction_type = "like"     -> FAdd(score, FTenth)
      [] interaction_type = "dislike"  -> FAdd(score, FNeg(FFifth))
      [] interaction_type = "bookmark" -> FAdd(score, FTwentieth)
      [] interaction_type = "view"     -> FAdd(score, FHundredth)
      [] OTHER                         -> score

RECURSIVE FloatLoop(_, _, _)
FloatLoop(recent, i, score) ==
    IF i > Len(recent) THEN score
    ELSE FloatLoop(recent, i + 1,
                   float_step(score, recent[i].interaction_type))

\* _get_user_preference_score as Python computes it: the score accumulated
\* float by float over the recent interactions, newest first
preference_score_float(log, food, u) ==
    LET recent == recent_interactions(log, food, u)
    IN  IF recent = <<>> THEN FHalf
        ELSE FMax(FZero, FMin(FOne, FloatLoop(recent, 1, FHalf)))

(***************************************************************************)
(* routes/interactions.py                                                  *)
(***************************************************************************)
\* POST /api/interactions: the response and the interaction table after it
log_interaction(log, current_user, interaction_type, food_item_id) ==
    IF interaction_type = ""
    THEN [status |-> 400, log |-> log]
    ELSE [status |-> 201,
          log |-> Append(log, UserInteraction(current_user.id, food_item_id,
                                              interaction_type))]

(***************************************************************************)
(* SpecPrefs: interactions logged on top of a stored history               *)
(***************************************************************************)
MaxAppends == 2

RECURSIVE Repeat(_, _)
Repeat(x, n) == IF n = 0 THEN <<>> ELSE <<x>> \o Repeat(x, n - 1)

PrefUsers ==
    { User(1, 2, "vegetarian", EmptyDict), User(2, 2, "vegetarian", EmptyDict) }

PrefFoods == Rows({3, 5})

PrefTypes == {"", "like", "dislike", "bookmark", "view", "share"}

\* stored histories, oldest first
PrefLogs ==
    LET L  == UserInteraction(1, 3, "like")
        D  == UserInteraction(1, 3, "dislike")
        Bk == UserInteraction(1, 3, "bookmark")
        V  == UserInteraction(1, 3, "view")
        X  == UserInteraction(2, 3, "dislike")
    IN  { <<>>,
          Repeat(V, 9),
          Repeat(L, 10),
          Repeat(D, 10),
          <<D, Bk, L, D>> \o Repeat(L, 6),
          <<D, X, L>> \o Repeat(V, 5) \o <<X, Bk>> \o Repeat(L, 3) }

InitPrefs ==
    /\ op = "log_interaction"
    /\ foods = PrefFoods
    /\ user \in PrefUsers
    /\ interactions \in PrefLogs
    /\ args = [logged |-> 0, interaction_type |-> "", food_item_id |-> 0]
    /\ pc = "idle"
    /\ ret = None
    /\ idlePlan
    /\ idleApp

LogInteraction ==
    /\ op = "log_interaction"
    /\ args.logged < MaxAppends
    /\ \E current_user \in PrefUsers, interaction_type \in PrefTypes,
          i \in 1..Len(foods) :
        LET out == log_interaction(interactions, current_user,
                                   interaction_type, foods[i].id)
        IN  /\ interactions' = out.log
            /\ ret' = out.status
            /\ user' = current_user
            /\ args' = [logged |-> args.logged + 1,
                        interaction_type |-> interaction_type,
                        food_item_id |-> foods[i].id]
    /\ pc' = "done"
    /\ UNCHANGED <<appVars, foods, op, planVars>>

NextPrefs == LogInteraction

SpecPrefs == InitPrefs /\ [][NextPrefs]_vars

(***************************************************************************)
(* Properties of the preference score                                      *)
(***************************************************************************)
\* the positions in the log of the interactions of user u with food f
PairAt(log, f, u) ==
    {i \in 1..Len(log) : log[i].user_id = u.id /\ log[i].food_item_id = f.id}

\* the positions of the 10 most recent of them
WindowAt(log, f, u) ==
    {i \in PairAt(log, f, u) :
        Cardinality({j \in PairAt(log, f, u) : j > i}) < RecentLimit}

CountOf(log, f, u, type) ==
    Cardinality({i \in WindowAt(log, f, u) : log[i].interaction_type = type})

\* 0.5 + 0.1 likes - 0.2 dislikes + 0.05 bookmarks + 0.01 views, clamped to
\* [0, 1], in hundredths
Hundredths(log, f, u) ==
    LET raw == 50 + 10 * CountOf(log, f, u, "like")
                  - 20 * CountOf(log, f, u, "dislike")
                  + 5 * CountOf(log, f, u, "bookmark")
                  + CountOf(log, f, u, "view")
    IN  IF raw < 0 THEN 0 ELSE IF raw > 100 THEN 100 ELSE raw

MagScale(a, k) == MagCarry(a[1] * k, a[2] * k, a[3] * k)

\* the rounding the ten float additions can accumulate: 2^-49
Tolerance == Pow2(10)

\* the float x is within the tolerance of h hundredths
Near(x, h) ==
    LET a == MagScale(x.m, 100)
        b == Mag(0, 0, h * Pow2(19))
        d == IF MagLess(a, b) THEN MagSub(b, a) ELSE MagSub(a, b)
    IN  ~x.neg /\ MagLess(d, Mag(100 * Tolerance + 1, 0, 0))

\* C25: after any sequence of interaction appends, a food's preferenceScore
\* for a user equals 0.5 + 0.1*likes - 0.2*dislikes + 0.05*bookmarks +
\* 0.01*views clamped to [0,1] (as a number, and as the float the code
\* accumulates to within the rounding of its additions), counted over only the
\* 10 most recent interactions of that user with that food; older
\* interactions and interactions of other users or with other foods have no
\* effect, and a food with no interactions scores exactly 0.5.
C25_PreferenceFormula ==
    op = "log_interaction" =>
        \A u \in PrefUsers : \A i \in 1..Len(foods) :
            LET h == Hundredths(interactions, foods[i], u)
            IN  /\ _get_user_preference_score(interactions, foods[i], u)
                      = Rat(h, 100)
                /\ Near(preference_score_float(interactions, foods[i], u), h)
                /\ PairAt(interactions, foods[i], u) = {} =>
                      preference_score_float(interactions, foods[i], u) = FHalf

\* an eleventh interaction of the pair was logged: the oldest one, a dislike,
\* left the window, while the other user's dislikes stay without effect
C25_Witness ==
    /\ op = "log_interaction"
    /\ pc = "done"
    /\ ret = 201
    /\ \E u \in PrefUsers : \E i \in 1..Len(foods) :
          /\ Cardinality(PairAt(interactions, foods[i], u)) > RecentLimit
          /\ \E j \in PairAt(interactions, foods[i], u)
                      \ WindowAt(interactions, foods[i], u) :
                interactions[j].interaction_type = "dislike"
          /\ \E j \in 1..Len(interactions) :
                /\ interactions[j].user_id # u.id
                /\ interactions[j].food_item_id = foods[i].id

\* the step appends one interaction of the given type for user u and food f
Appends(u, f, type) ==
    interactions' = Append(interactions, UserInteraction(u.id, f.id, type))

\* C29 as stated: appending a "like" for a (user, food) pair never lowers
\* that food's preferenceScore for the user and appending a "dislike" never
\* raises it, for every prior history, including histories of 10 or more
\* records where the new record pushes the oldest one out of the window.
C29_Original ==
    [][\A u \in PrefUsers : \A i \in 1..Len(foods) :
        LET before == preference_score_float(interactions, foods[i], u)
            after  == preference_score_float(interactions', foods[i], u)
        IN  /\ Appends(u, foods[i], "like") => FLe(before, after)
            /\ Appends(u, foods[i], "dislike") => FLe(after, before)]_vars

(***************************************************************************)
(* The warnings of check_safety                                            *)
(***************************************************************************)
MatchingAllergies(food_item, health) ==
    LET allergies == Get(health, "allergies", <<>>)
    IN  {i \in 1..Len(allergies) :
            IsSubstring(Lower(allergies[i]), Lower(food_item.name_english))}

SugarWarned(food_item, health) ==
    /\ Get(health, "diabetes", FALSE)
    /\ Get(get_nutritional_info(food_item), "sugar", 0) > 15

SodiumWarned(food_item, health) ==
    /\ Get(health, "hypertension", FALSE)
    /\ Get(get_nutritional_info(food_item), "sodium", 0) > 200

Count(b) == IF b THEN 1 ELSE 0

\* C26: when an allergen matches, check_safety returns exactly one warning,
\* naming the first matching allergen in configured order, and no other
\* warning; when none matches, the warnings are, in this order, the high-sugar
\* warning iff the diabetes flag is set and sugar > 15, the high-sodium
\* warning iff the hypertension flag is set and sodium > 200, and the food's
\* precaution text iff it is present.
C26_WarningsInOrder ==
    (op = "check_safety" /\ pc = "done") =>
        LET f       == args.food_item
            h       == args.user_health_conditions
            hits    == MatchingAllergies(f, h)
            sugar   == SugarWarned(f, h)
            sodium  == SodiumWarned(f, h)
            caution == f.precautions # ""
            w       == ret.warnings
        IN  IF hits # {}
            THEN /\ Len(w) = 1
                 /\ w[1].msg = "Contains allergen: "
                 /\ \E i \in hits :
                       /\ \A j \in hits : i <= j
                       /\ w[1].arg = h["allergies"][i]
            ELSE /\ Len(w) = Count(sugar) + Count(sodium) + Count(caution)
                 /\ sugar =>
                       w[1].msg = "High sugar content - consume in moderation"
                 /\ sodium =>
                       w[1 + Count(sugar)].msg = "High sodium - limit intake"
                 /\ caution => w[Len(w)].msg = f.precautions

\* two configured allergens match the name and one warning names the first
C26_Witness ==
    /\ op = "check_safety"
    /\ pc = "done"
    /\ Cardinality(MatchingAllergies(args.food_item,
                                     args.user_health_conditions)) = 2
    /\ SugarWarned(args.food_item, args.user_health_conditions)
    /\ args.food_item.precautions # ""
    /\ Len(ret.warnings) = 1

(***************************************************************************)
(* SpecSingleton: threads of the server inside get_chatbot                 *)
(*                                                                         *)
(* Each thread runs routes/chatbot.py get_chatbot, which calls             *)
(* ai_engine/chatbot.py get_chatbot.  Neither takes a lock, so the reads   *)
(* and writes of the two module globals interleave.                        *)
(***************************************************************************)
MaxThreads == 2

Thread(at, made, result, returned) ==
    [pc |-> at, made |-> made, result |-> result, returned |-> returned]

InitSingleton ==
    /\ op = "get_chatbot"
    /\ threads = [t \in 1..MaxThreads |-> Thread("route_check", <<>>, <<>>, <<>>)]
    /\ _chatbot_instance = <<>>
    /\ _chatbot = <<>>
    /\ instances = 0
    /\ recommendations = <<>>
    /\ models_loaded = FALSE
    /\ foods = <<>>
    /\ user = None
    /\ interactions = <<>>
    /\ args = None
    /\ pc = "serving"
    /\ ret = None
    /\ idlePlan

At(t, at) == op = "get_chatbot" /\ threads[t].pc = at

Goto(t, at) == [threads EXCEPT ![t].pc = at]

singletonRest ==
    <<recommendations, models_loaded, foods, user, interactions, op, args, pc,
      ret, planVars>>

\* routes/chatbot.py line 16: if _chatbot is None
RouteCheck(t) ==
    /\ At(t, "route_check")
    /\ threads' = Goto(t, IF _chatbot = <<>> THEN "engine_check"
                          ELSE "route_return")
    /\ UNCHANGED <<_chatbot_instance, _chatbot, instances, singletonRest>>

\* ai_engine/chatbot.py line 306: if _chatbot_instance is None
EngineCheck(t) ==
    /\ At(t, "engine_check")
    /\ threads' = Goto(t, IF _chatbot_instance = <<>> THEN "engine_construct"
                          ELSE "engine_return")
    /\ UNCHANGED <<_chatbot_instance, _chatbot, instances, singletonRest>>

\* line 307, right-hand side: MaternalFoodChatbot()
EngineConstruct(t) ==
    /\ At(t, "engine_construct")
    /\ instances' = instances + 1
    /\ threads' = [threads EXCEPT ![t].pc = "engine_store",
                                  ![t].made = <<instances + 1>>]
    /\ UNCHANGED <<_chatbot_instance, _chatbot, singletonRest>>

\* line 307, the assignment to the global
EngineStore(t) ==
    /\ At(t, "engine_store")
    /\ _chatbot_instance' = threads[t].made
    /\ threads' = Goto(t, "engine_return")
    /\ UNCHANGED <<_chatbot, instances, singletonRest>>

\* line 308: return _chatbot_instance
EngineReturn(t) ==
    /\ At(t, "engine_return")
    /\ threads' = [threads EXCEPT ![t].pc = "route_store",
                                  ![t].result = _chatbot_instance]
    /\ UNCHANGED <<_chatbot_instance, _chatbot, instances, singletonRest>>

\* routes/chatbot.py line 18: _chatbot = get_chatbot_instance()
RouteStore(t) ==
    /\ At(t, "route_store")
    /\ _chatbot' = threads[t].result
    /\ threads' = Goto(t, "route_return")
    /\ UNCHANGED <<_chatbot_instance, instances, singletonRest>>

\* line 19: return _chatbot
RouteReturn(t) ==
    /\ At(t, "route_return")
    /\ threads' = [threads EXCEPT ![t].pc = "returned",
                                  ![t].returned = _chatbot]
    /\ UNCHANGED <<_chatbot_instance, _chatbot, instances, singletonRest>>

NextSingleton ==
    \E t \in 1..MaxThreads :
        \/ RouteCheck(t)
        \/ EngineCheck(t)
        \/ EngineConstruct(t)
        \/ EngineStore(t)
        \/ EngineReturn(t)
        \/ RouteStore(t)
        \/ RouteReturn(t)

SpecSingleton == InitSingleton /\ [][NextSingleton]_vars

\* C28 as stated: under any interleaving of concurrent first calls to
\* get_chatbot, at most one MaternalFoodChatbot instance is ever created, and
\* every call, concurrent or later, returns that same instance.
C28_Original ==
    op = "get_chatbot" =>
        /\ instances <= 1
        /\ \A t, u \in DOMAIN threads :
              (threads[t].pc = "returned" /\ threads[u].pc = "returned")
                  => threads[t].returned = threads[u].returned

(***************************************************************************)
(* Request bodies: request.get_json()                                      *)
(***************************************************************************)
\* a JSON value: null, an integer, a number with a fraction (n / d), a string
Json(kind, n, d, text) == [kind |-> kind, n |-> n, d |-> d, text |-> text]

JNull        == Json("null", 0, 1, <<>>)
JInt(n)      == Json("int", n, 1, <<>>)
JFloat(n, d) == Json("float", n, d, <<>>)
JStr(text)   == Json("str", 0, 1, text)

\* str.strip()
str_strip(s) ==
    LET kept == {i \in 1..Len(s) : s[i] \notin Whitespace}
    IN  IF kept = {} THEN <<>>
        ELSE SubSeq(s, CHOOSE i \in kept : \A j \in kept : i <= j,
                       CHOOSE i \in kept : \A j \in kept : j <= i)

RECURSIVE DigitsValue(_, _)
DigitsValue(text, acc) ==
    IF text = <<>> THEN acc
    ELSE DigitsValue(Tail(text), 10 * acc + DigitValue(Head(text)))

\* int(x): an int is kept, a float is truncated toward zero, a string is
\* parsed as an optional sign and decimal digits between whitespace; None
\* raises TypeError and any other string raises ValueError
python_int(x) ==
    CASE x.kind = "int"   -> [ok |-> TRUE, value |-> x.n]
      [] x.kind = "float" ->
            [ok |-> TRUE,
             value |-> IF x.n >= 0 THEN x.n \div x.d ELSE -((-x.n) \div x.d)]
      [] x.kind = "str"   ->
            LET t      == str_strip(x.text)
                signed == t # <<>> /\ t[1] \in {"+", "-"}
                body   == IF signed THEN Tail(t) ELSE t
                ok     == body # <<>> /\ \A i \in 1..Len(body) : IsDigit(body[i])
                v      == IF ok THEN DigitsValue(body, 0) ELSE 0
            IN  [ok |-> ok,
                 value |-> IF signed /\ t[1] = "-" THEN -v ELSE v]
      [] OTHER            -> [ok |-> FALSE, value |-> 0]

ErrorResponse(status, error) == [status |-> status, error |-> error]

(***************************************************************************)
(* routes/meal_plans.py: POST /api/generate                                *)
(***************************************************************************)
DefaultDays == 7

\* lines 40-58: the body is read and days is validated
ValidateMealPlanRequest ==
    /\ op = "generate_meal_plan"
    /\ pc = "request"
    /\ LET data   == args.data
           parsed == python_int(Get(data, "days", JInt(DefaultDays)))
       IN  IF DOMAIN data = {}
           THEN /\ ret' = ErrorResponse(400, "Request data is required")
                /\ pc' = "responded"
                /\ args' = args
           ELSE IF ~parsed.ok
           THEN /\ ret' = ErrorResponse(400, "Invalid days value")
                /\ pc' = "responded"
                /\ args' = args
           ELSE IF parsed.value < 1 \/ parsed.value > 30
           THEN /\ ret' = ErrorResponse(400, "Days must be between 1 and 30")
                /\ pc' = "responded"
                /\ args' = args
           ELSE /\ ret' = ret
                /\ pc' = "call"
                /\ args' = [args EXCEPT !.days = parsed.value,
                                        !.region = Get(data, "region", ""),
                                        !.diet_type = Get(data, "diet_type", "")]
    /\ UNCHANGED <<appVars, foods, user, interactions, op, planVars>>

\* lines 60-93: the planner has returned; the error is passed on, or the
\* interaction is logged and the plan returned
RespondMealPlan ==
    /\ op = "generate_meal_plan"
    /\ pc = "done"
    /\ "data" \in DOMAIN args
    /\ IF "error" \in DOMAIN ret
       THEN /\ ret' = [status |-> 400, success |-> FALSE, error |-> ret.error]
            /\ interactions' = interactions
       ELSE /\ ret' = [status |-> 200, success |-> TRUE,
                       meal_plan |-> ret.meal_plan,
                       nutrition_summary |-> ret.nutrition_summary,
                       table_format |-> ret.table_format]
            /\ interactions' = Append(interactions,
                   UserInteraction(user.id, None, "meal_plan_generation"))
    /\ pc' = "responded"
    /\ UNCHANGED <<appVars, foods, user, op, args, planVars>>

(***************************************************************************)
(* routes/chatbot.py: POST /api/ask                                        *)
(***************************************************************************)
\* get_chatbot() of the route, then of the engine, run by one thread alone
get_chatbot(route_global, engine_global, made) ==
    IF route_global # <<>>
    THEN [_chatbot |-> route_global, _chatbot_instance |-> engine_global,
          instances |-> made]
    ELSE IF engine_global # <<>>
    THEN [_chatbot |-> engine_global, _chatbot_instance |-> engine_global,
          instances |-> made]
    ELSE [_chatbot |-> <<made + 1>>, _chatbot_instance |-> <<made + 1>>,
          instances |-> made + 1]

\* ask_question: the response, the interaction table and the instance's flag
\* afterwards, and whether get_chatbot was reached
ask_question(log, loaded, available, data, all_foods, current_user) ==
    IF "question" \notin DOMAIN data
    THEN [response |-> ErrorResponse(400, "Question is required"),
          log |-> log, models_loaded |-> loaded, called |-> FALSE]
    ELSE IF data["question"].kind # "str"
    THEN [response |-> ErrorResponse(500,
              "An error occurred processing your question. Please try again."),
          log |-> log, models_loaded |-> loaded, called |-> FALSE]
    ELSE LET question == str_strip(data["question"].text)
             result   == answer_question(loaded, available, question,
                                         all_foods,
                                         current_user.current_trimester)
         IN  IF question = <<>>
             THEN [response |-> ErrorResponse(400, "Question cannot be empty"),
                   log |-> log, models_loaded |-> loaded, called |-> FALSE]
             ELSE IF result.raised
             THEN [response |-> ErrorResponse(500,
                       "An error occurred processing your question. Please try again."),
                   log |-> log, models_loaded |-> result.models_loaded,
                   called |-> TRUE]
             ELSE [response |-> [status |-> 200, success |-> TRUE,
                                 answer |-> result.value.answer,
                                 intent |-> result.value.intent,
                                 foods_mentioned |-> result.value.foods_mentioned,
                                 confidence |-> result.value.confidence,
                                 trimester |-> current_user.current_trimester],
                   log |-> Append(log, UserInteraction(current_user.id, None,
                                                       "chatbot_query")),
                   models_loaded |-> result.models_loaded,
                   called |-> TRUE]

AskQuestion ==
    /\ op = "ask_question"
    /\ pc = "request"
    /\ LET out == ask_question(interactions, models_loaded, args.available,
                               args.data, foods, user)
           got == IF out.called
                  THEN get_chatbot(_chatbot, _chatbot_instance, instances)
                  ELSE [_chatbot |-> _chatbot,
                        _chatbot_instance |-> _chatbot_instance,
                        instances |-> instances]
       IN  /\ ret' = out.response
           /\ interactions' = out.log
           /\ models_loaded' = out.models_loaded
           /\ _chatbot' = got._chatbot
           /\ _chatbot_instance' = got._chatbot_instance
           /\ instances' = got.instances
    /\ pc' = "responded"
    /\ UNCHANGED <<recommendations, threads, foods, user, op, args, planVars>>

(***************************************************************************)
(* SpecInput: one request to /api/generate or to /api/ask                  *)
(***************************************************************************)
Two      == <<"2">>
Padded   == <<" ", "3", "0", "\n">>
Minus    == <<"-", "1">>
Word     == <<"t", "w", "o">>
Blank    == <<" ", "\t", " ">>

\* the days values of the request bodies
DaysValues ==
    { JInt(-1), JInt(0), JInt(1), JInt(2), JInt(30), JInt(31),
      JFloat(1, 2), JFloat(5, 2), JFloat(61, 2), JFloat(-1, 2),
      JStr(Two), JStr(Padded), JStr(Minus), JStr(Word), JStr(<<>>), JNull }

MealBodies ==
    {EmptyDict} \cup {("days" :> v) : v \in DaysValues}
                \cup {("diet_type" :> "vegan")}

QuestionValues ==
    { JStr(<<>>), JStr(Blank), JStr(MilkQuestion),
      JStr(<<" ">> \o PapayaQuestion \o <<"\n">>), JNull, JInt(5) }

AskBodies ==
    {EmptyDict, ("text" :> JStr(MilkQuestion))}
        \cup {("question" :> v) : v \in QuestionValues}

InputUsers ==
    { User(1, 2, "vegetarian", EmptyDict), User(2, 3, "vegan", EmptyDict) }

InitInput ==
    /\ op \in {"generate_meal_plan", "ask_question"}
    /\ \/ /\ op = "generate_meal_plan"
          /\ foods \in {<<>>, Rows({1}), Rows({2})}
          /\ args \in [days : {0}, region : {""}, diet_type : {""},
                       data : MealBodies]
       \/ /\ op = "ask_question"
          /\ foods \in {<<>>, ChatRows({1, 4})}
          /\ args \in [data : AskBodies, available : BOOLEAN]
    /\ user \in InputUsers
    /\ interactions = <<>>
    /\ pc = "request"
    /\ ret = None
    /\ idlePlan
    /\ idleApp

NextInput ==
    \/ ValidateMealPlanRequest
    \/ GenerateMealPlan
    \/ BeginDay
    \/ SelectMeal
    \/ EndDay
    \/ ReturnPlan
    \/ RespondMealPlan
    \/ AskQuestion

SpecInput == InitInput /\ [][NextInput]_vars

(***************************************************************************)
(* Properties of the two request handlers                                  *)
(***************************************************************************)
Responded == pc = "responded"

\* the days value is a number outside [1, 30]
DaysOutOfRange(v) ==
    /\ v.kind \in {"int", "float"}
    /\ v.n < v.d \/ v.n > 30 * v.d

\* the days value is not an integer: a number with a fraction, null, or
\* text that does not spell an integer
DaysNotInteger(v) ==
    \/ v.kind = "float" /\ v.n % v.d # 0
    \/ v.kind = "null"
    \/ v.kind = "str" /\ ~python_int(v).ok

\* the question is missing, or empty once trimmed
QuestionEmpty(data) ==
    \/ "question" \notin DOMAIN data
    \/ /\ data["question"].kind = "str"
       /\ str_strip(data["question"].text) = <<>>

\* a structured error, nothing generated, nothing logged
RefusedQuietly ==
    /\ "error" \in DOMAIN ret
    /\ ret.status >= 400
    /\ meal_plan = <<>>
    /\ instances = 0
    /\ interactions = <<>>

\* C27 as stated: a meal-plan request whose days value is outside [1,30] or
\* not an integer, and a question request whose text is missing or empty after
\* trimming, each return a structured error message without generating a plan
\* or an answer and without appending any record to the interaction log; a
\* meal-plan request that ends in the no-suitable-foods error also appends
\* nothing.
C27_Original ==
    Responded =>
        /\ (/\ op = "generate_meal_plan"
            /\ "days" \in DOMAIN args.data
            /\ \/ DaysOutOfRange(args.data["days"])
               \/ DaysNotInteger(args.data["days"]))
              => RefusedQuietly
        /\ (op = "ask_question" /\ QuestionEmpty(args.data)) => RefusedQuietly
        /\ (/\ op = "generate_meal_plan"
            /\ "error" \in DOMAIN ret
            /\ ret.error = "No suitable foods found for your preferences")
              => interactions = <<>>

\* what holds of the handlers: the error paths of the claim with the days
\* value judged after int() has converted it
InputErrorsAppendNothing ==
    Responded =>
        /\ (/\ op = "generate_meal_plan"
            /\ "days" \in DOMAIN args.data
            /\ LET parsed == python_int(args.data["days"])
               IN  ~parsed.ok \/ parsed.value < 1 \/ parsed.value > 30)
              => RefusedQuietly
        /\ (op = "ask_question" /\ QuestionEmpty(args.data)) => RefusedQuietly
        /\ "error" \in DOMAIN ret => interactions = <<>>
        /\ "error" \notin DOMAIN ret => Len(interactions) = 1

(***************************************************************************)
(* Ties in the ranked output                                               *)
(***************************************************************************)
\* the position of a food in the catalog as queried
CatalogIndex(food) == CHOOSE i \in 1..Len(foods) : foods[i].id = food.id

Tied(a, b) == ~RLt(a.score, b.score) /\ ~RLt(b.score, a.score)

InCatalogOrder(a, b) == CatalogIndex(a.food) < CatalogIndex(b.food)

\* the category cap passed over the item in the first loop
PassedOver(pool, cap, item) ==
    LET at == CHOOSE i \in 1..Len(pool) : pool[i] = item
    IN  CategoryRank(pool, at) > cap

\* every tied pair of the sequence stands in catalog order
TiesInCatalogOrder(scored) ==
    \A i, j \in 1..Len(scored) :
        (i < j /\ Tied(scored[i], scored[j]))
            => InCatalogOrder(scored[i], scored[j])

====
